---- MODULE Spec2Model ----
(***************************************************************************)
(* A model of domharvest-playwright's resilience and session layer:        *)
(*   - RateLimiter.waitIfNeeded          (src/src/harvester.js)            *)
(*   - DOMHarvester.harvest / harvestCustom retry loops, handleError       *)
(*   - DOMHarvester.harvestBatch                                           *)
(*   - SessionManager                    (src/src/auth.js)                 *)
(* Every asynchronous function is cut at its awaits: the code between two  *)
(* awaits runs atomically (one scheduler, no preemption) and is one action.*)
(***************************************************************************)
EXTENDS Integers, Sequences, FiniteSets, TLC

\* JavaScript's null / undefined
Null == "null"

(***************************************************************************)
(* Bounds of the model                                                     *)
(***************************************************************************)
\* the clock runs from 0 to MaxTime
MaxTime == 5
\* concurrent callers of the rate limiter
NumCallers == 3
\* options.retries ranges over 0..MaxRetries
MaxRetries == 2
\* harvestBatch is given up to MaxJobs configs
MaxJobs == 3
\* options.concurrency ranges over 1..MaxConcurrency
MaxConcurrency == 2
\* calculateBackoff is called with attempt in 0..MaxAttempt
MaxAttempt == 9

VARIABLES
    \* ---- RateLimiter ----
    clock,              \* Date.now()
    rlConfig,           \* options.rateLimit, which the limiter is built from
    globalTimestamps,   \* RateLimiter.globalTimestamps
    domainTimestamps,   \* RateLimiter.domainTimestamps
    waiter,             \* per caller: the frame of its waitIfNeeded call
    granted,            \* history: the calls that returned, with their timestamps
    \* ---- DOMHarvester ----
    onError,            \* whether options.onError is set
    calls,              \* per call of harvest / harvestCustom: its frame
    onErrorLog,         \* history: the invocations of the onError observer
    \* ---- harvestBatch ----
    batch,              \* the frame of the harvestBatch call
    \* ---- SessionManager ----
    dirExists,          \* whether storageDir exists
    files,              \* the files of storageDir, by name
    sessions,           \* per manager: SessionManager.sessions, id -> path
    pending,            \* per manager: its saveSession / loadSession in flight
    lastCall,           \* history: the call that returned in the step just
                        \* taken, and what it returned
    lastSaved,          \* history: per id, what the last saveSession wrote
    deleted,            \* history: per manager and id, deleteSession returned
                        \* and no saveSession of the id followed
    \* ---- the extraction phase of _performHarvest ----
    extraction,         \* the frame of the extraction in progress
    \* ---- calculateBackoff ----
    backoffCall,        \* the frame of a call of calculateBackoff
    \* ---- the convenience function harvest ----
    oneOff,             \* the frame of the call, with the browser it launched
    \* ---- one attempt of harvest / harvestCustom ----
    attemptRun,         \* the frame of the attempt, with the phases it ran
    \* ---- login (auth.js) ----
    loginRun            \* the frame of the login call, with the steps it made

rlVars == <<clock, rlConfig, globalTimestamps, domainTimestamps, waiter, granted>>
hvVars == <<onError, calls, onErrorLog>>
smVars == <<dirExists, files, sessions, pending, lastCall, lastSaved, deleted>>

vars == <<clock, rlConfig, globalTimestamps, domainTimestamps, waiter, granted,
          onError, calls, onErrorLog, batch,
          dirExists, files, sessions, pending, lastCall, lastSaved, deleted,
          extraction, backoffCall, oneOff, attemptRun, loginRun>>

(***************************************************************************)
(* RateLimiter                                                             *)
(***************************************************************************)
Callers == 1..NumCallers

Urls == {"http://a.test/x", "http://b.test/y", "not a url"}
Domains == {"a.test", "b.test"}

\* a limit object {requests, per}; Undefined stands for a missing object, whose
\* requests and per read as undefined
Undefined == [defined |-> FALSE, requests |-> 0, per |-> 0]
Limit(q, w) == [defined |-> TRUE, requests |-> q, per |-> w]

\* the rateLimit options the model explores: the flat form {requests, per},
\* the split form {global, perDomain}, and a perDomain-only object
RLConfigs ==
    { [global |-> Undefined, perDomain |-> Undefined, flat |-> Limit(1, 2)],
      [global |-> Undefined, perDomain |-> Undefined, flat |-> Limit(2, 3)],
      [global |-> Limit(2, 2), perDomain |-> Limit(1, 3), flat |-> Undefined],
      [global |-> Undefined, perDomain |-> Limit(1, 2), flat |-> Undefined] }

\* options.rateLimit left out
NoRateLimit == [global |-> Undefined, perDomain |-> Undefined, flat |-> Undefined]

\* DOMHarvester's constructor, line 176: a limiter is built when
\* options.rateLimit is given
rateLimiter == rlConfig # NoRateLimit

\* constructor: this.globalLimit = config.global || config
globalLimit == IF rlConfig.global.defined THEN rlConfig.global ELSE rlConfig.flat

\* constructor: this.perDomainLimit = config.perDomain || null
perDomainLimit == rlConfig.perDomain

\* a parser that takes what it cannot parse for a path on the host a.test
extractDomain_Lenient(url) ==
    CASE url = "http://b.test/y" -> "b.test"
      [] OTHER -> "a.test"

\* new URL(url).hostname, null when the URL does not parse
extractDomain(url) ==
    CASE url = "http://a.test/x" -> "a.test"
      [] url = "http://b.test/y" -> "b.test"
      [] OTHER -> Null

\* timestamps.filter(ts => ts > Date.now() - limit.per); an undefined per
\* makes the cutoff NaN and every comparison false
cleanOldTimestamps(timestamps, limit) ==
    IF ~limit.defined THEN <<>> ELSE
    SelectSeq(timestamps, LAMBDA ts : ts > clock - limit.per)

\* a quota check that lets one request more through
AtQuota_Exceeded(timestamps, limit) ==
    limit.defined /\ Len(timestamps) > limit.requests

\* length >= limit.requests (false against undefined)
AtQuota(timestamps, limit) ==
    limit.defined /\ Len(timestamps) >= limit.requests

\* oldestTimestamp + limit.per - now
WaitTime(timestamps, limit, now) == timestamps[1] + limit.per - now

\* no timestamp
NoTs == 0 - 1

IdleWaiter == [pc |-> "idle", url |-> Null, now |-> 0, wake |-> 0,
               domainTs |-> <<>>, gts |-> NoTs]

\* domainTimestamps: a Map entry, or no entry
NoEntry == [has |-> FALSE, ts |-> <<>>]
Entry(ts) == [has |-> TRUE, ts |-> ts]

\* the call returns: it is recorded with the timestamps it pushed
Return(c, w, dts) ==
    /\ waiter' = [waiter EXCEPT ![c] = [w EXCEPT !.pc = "done"]]
    /\ granted' = Append(granted, [caller |-> c, url |-> w.url,
                                   domain |-> extractDomain(w.url),
                                   gts |-> w.gts, dts |-> dts])

\* a call that leaves the per-domain scope out
DomainPhase_Skipped(c, w) ==
    /\ UNCHANGED domainTimestamps
    /\ Return(c, w, NoTs)

\* lines 143-159: the per-domain scope, entered with the frame w
DomainPhase(c, w) ==
    LET domain == extractDomain(w.url) IN
    IF perDomainLimit.defined /\ domain # Null
    THEN LET stored == IF domainTimestamps[domain].has
                       THEN domainTimestamps[domain].ts ELSE <<>>
             domainTs == cleanOldTimestamps(stored, perDomainLimit)
         IN IF AtQuota(domainTs, perDomainLimit)
               /\ WaitTime(domainTs, perDomainLimit, w.now) > 0
            THEN \* await setTimeout(waitTime): the has/set of line 145-147 is done
                 /\ domainTimestamps' =
                        [domainTimestamps EXCEPT ![domain] = Entry(stored)]
                 /\ waiter' = [waiter EXCEPT ![c] =
                        [w EXCEPT !.pc = "dsleep", !.domainTs = domainTs,
                                  !.wake = clock + WaitTime(domainTs, perDomainLimit, w.now)]]
                 /\ UNCHANGED granted
            ELSE /\ domainTimestamps' =
                        [domainTimestamps EXCEPT ![domain] = Entry(Append(domainTs, clock))]
                 /\ Return(c, w, clock)
    ELSE /\ UNCHANGED domainTimestamps
         /\ Return(c, w, NoTs)

\* lines 126-141: waitIfNeeded is entered; the global scope is checked
WaitIfNeeded(c, url) ==
    /\ waiter[c].pc = "idle"
    /\ LET w == [IdleWaiter EXCEPT !.url = url, !.now = clock]
           cleaned == cleanOldTimestamps(globalTimestamps, globalLimit)
       IN IF AtQuota(cleaned, globalLimit) /\ WaitTime(cleaned, globalLimit, clock) > 0
          THEN /\ globalTimestamps' = cleaned
               /\ waiter' = [waiter EXCEPT ![c] =
                      [w EXCEPT !.pc = "gsleep",
                                !.wake = clock + WaitTime(cleaned, globalLimit, clock)]]
               /\ UNCHANGED <<domainTimestamps, granted>>
          ELSE /\ globalTimestamps' = Append(cleaned, clock)
               /\ DomainPhase(c, [w EXCEPT !.gts = clock])
    /\ UNCHANGED <<clock, rlConfig>>

\* a timer whose promise is never resolved
GlobalWake_NeverResolves(c) ==
    /\ waiter[c].pc = "gsleep"
    /\ waiter[c].wake < 0
    /\ UNCHANGED <<clock, rlConfig, globalTimestamps, domainTimestamps,
                   waiter, granted>>

\* line 137 resolves: the global timestamp is pushed, then the domain scope
GlobalWake(c) ==
    /\ waiter[c].pc = "gsleep"
    /\ clock >= waiter[c].wake
    /\ globalTimestamps' = Append(globalTimestamps, clock)
    /\ DomainPhase(c, [waiter[c] EXCEPT !.gts = clock])
    /\ UNCHANGED <<clock, rlConfig>>

\* line 154 resolves: push on the local list, store it
DomainWake(c) ==
    /\ waiter[c].pc = "dsleep"
    /\ clock >= waiter[c].wake
    /\ domainTimestamps' =
           [domainTimestamps EXCEPT ![extractDomain(waiter[c].url)] =
                Entry(Append(waiter[c].domainTs, clock))]
    /\ Return(c, waiter[c], clock)
    /\ UNCHANGED <<clock, rlConfig, globalTimestamps>>

\* time passes
Tick ==
    /\ clock < MaxTime
    /\ clock' = clock + 1
    /\ UNCHANGED <<rlConfig, globalTimestamps, domainTimestamps, waiter, granted>>

\* the limiter before its first call
RLFresh ==
    /\ clock = 0
    /\ globalTimestamps = <<>>
    /\ domainTimestamps = [d \in Domains |-> NoEntry]
    /\ waiter = [c \in Callers |-> IdleWaiter]
    /\ granted = <<>>

(***************************************************************************)
(* DOMHarvester.harvest / harvestCustom                                    *)
(***************************************************************************)
\* the direct call is call 0; job i of a batch is call i
CallIds == 0..MaxJobs
DirectCall == 0

\* error.name of what an attempt can fail with: the three wrapped errors, and
\* "Error" for what the engine throws unwrapped
ErrorNames == {"NavigationError", "TimeoutError", "ExtractionError", "Error"}

\* what an attempt of each entry point can throw: _performHarvest wraps its
\* three phases and lets the error of newPage or page.close through as it is;
\* harvestCustom wraps navigation only and lets the error of page.evaluate
\* through as it is
FailuresOf(kind) ==
    IF kind = "harvest"
    THEN {"NavigationError", "TimeoutError", "ExtractionError", "Error"}
    ELSE {"NavigationError", "Error"}

\* 1000 in calculateBackoff
BaseDelay == 1000
\* the default of maxBackoff
DefaultMaxBackoff == 10000

\* options.retryOn: null, or a list of error names
NoList == [isList |-> FALSE, names |-> {}]
List(S) == [isList |-> TRUE, names |-> S]

CallOptions ==
    [retries : 0..MaxRetries,
     backoff : {"exponential", "linear"},
     maxBackoff : {DefaultMaxBackoff, 1500, 0},
     retryOn : {NoList, List({}), List({"TimeoutError"}),
                List({"TimeoutError", "NavigationError"})}]

Min(a, b) == IF a <= b THEN a ELSE b

\* a backoff that starts high and halves from one retry to the next
calculateBackoff_Decaying(attempt, strategy, maxBackoff) ==
    Min((4 * BaseDelay) \div 2^attempt, maxBackoff)

\* a backoff that leaves the cap out
calculateBackoff_Uncapped(attempt, strategy, maxBackoff) ==
    IF strategy = "linear"
    THEN BaseDelay * (attempt + 1)
    ELSE BaseDelay * 2^attempt

\* lines 282-288
calculateBackoff(attempt, strategy, maxBackoff) ==
    IF strategy = "linear"
    THEN Min(BaseDelay * (attempt + 1), maxBackoff)
    ELSE Min(BaseDelay * 2^attempt, maxBackoff)

\* a shouldRetry that takes an empty list for an absent one
shouldRetry_EmptyAsAbsent(errorName, retryOn) ==
    IF retryOn.names = {} THEN TRUE ELSE errorName \in retryOn.names

\* lines 296-299
shouldRetry(errorName, retryOn) ==
    IF ~retryOn.isList THEN TRUE ELSE errorName \in retryOn.names

NoOptions == [retries |-> 0, backoff |-> "exponential",
              maxBackoff |-> DefaultMaxBackoff, retryOn |-> NoList]

IdleCall == [pc |-> "idle", kind |-> Null, url |-> Null, options |-> NoOptions,
             attempt |-> 0, lastError |-> Null, delay |-> 0, thrown |-> Null,
             result |-> Null, attempts |-> 0, slept |-> <<>>]

\* what page.$$eval / page.evaluate returns for the page at url
DataOf(url) == <<"data", url>>

\* lines 336 / 494 with `attempt <= retries` false from the start: the loop
\* makes no iteration, and lines 373-376 / 553-556 throw lastError as line
\* 333 / 491 left it, null
SkippedCall(kind, url, o) ==
    [IdleCall EXCEPT !.pc = "rejected", !.kind = kind, !.url = url, !.options = o]

\* the frame of a call that has run to its first await past the rate limiter:
\* harvest is inside _performHarvest of attempt 0, harvestCustom awaits
\* context.newPage() of attempt 0
StartedCall(kind, url, o) ==
    IF 0 <= o.retries
    THEN [IdleCall EXCEPT !.pc = IF kind = "harvest" THEN "running" ELSE "newpage",
                          !.kind = kind, !.url = url, !.options = o, !.attempts = 1]
    ELSE SkippedCall(kind, url, o)

\* lines 268-273: the observer, when there is one, is called with the error
\* and a context holding the url
handleError(c, errorName, url) ==
    IF onError
    THEN Append(onErrorLog, [call |-> c, error |-> errorName, url |-> url])
    ELSE onErrorLog

\* line 375 / 555 of a call whose loop made no iteration: the observer is
\* called with lastError, null
StartedLog(c, url, o) ==
    IF 0 <= o.retries THEN onErrorLog ELSE handleError(c, Null, url)

\* a call that goes to its first attempt past the rate limiter
Enter_SkipsLimiter(c, kind, url, o) ==
    /\ calls[c].pc = "idle"
    /\ calls' = [calls EXCEPT ![c] = StartedCall(kind, url, o)]
    /\ onErrorLog' = StartedLog(c, url, o)
    /\ UNCHANGED rlVars
    /\ UNCHANGED onError

\* lines 317-334 / 476-492: the call is made
Enter(c, kind, url, o) ==
    /\ calls[c].pc = "idle"
    /\ IF rateLimiter
       THEN /\ c \in Callers
            /\ WaitIfNeeded(c, url)
            /\ calls' = [calls EXCEPT ![c] =
                   [IdleCall EXCEPT !.pc = "limiter", !.kind = kind, !.url = url,
                                    !.options = o]]
            /\ UNCHANGED onErrorLog
       ELSE /\ calls' = [calls EXCEPT ![c] = StartedCall(kind, url, o)]
            /\ onErrorLog' = StartedLog(c, url, o)
            /\ UNCHANGED rlVars
    /\ UNCHANGED onError

Harvest(c, url, o) == Enter(c, "harvest", url, o)

HarvestCustom(c, url, o) == Enter(c, "harvestCustom", url, o)

\* lines 566-603: screenshot() passes the limiter and makes its one attempt
Screenshot(c, url) == Enter(c, "screenshot", url, NoOptions)

\* line 330 / 488 resolves: the loop is entered
LimiterReturns(c) ==
    /\ calls[c].pc = "limiter"
    /\ c \in Callers /\ waiter[c].pc = "done"
    /\ calls' = [calls EXCEPT ![c] =
           StartedCall(calls[c].kind, calls[c].url, calls[c].options)]
    /\ onErrorLog' = StartedLog(c, calls[c].url, calls[c].options)
    /\ UNCHANGED <<rlVars, onError>>

\* harvestCustom line 495 resolves; for a retry the backoff sleep follows
PageCreated(c) ==
    /\ calls[c].pc = "newpage"
    /\ calls' = [calls EXCEPT ![c] =
           IF calls[c].attempt > 0
           THEN [calls[c] EXCEPT !.pc = "backoff",
                    !.delay = calculateBackoff(calls[c].attempt - 1,
                                  calls[c].options.backoff, calls[c].options.maxBackoff)]
           ELSE [calls[c] EXCEPT !.pc = "running"]]
    /\ UNCHANGED <<rlVars, onError, onErrorLog>>

\* harvestCustom line 495 rejects: the await is outside the try, so the error
\* leaves the loop and the call
PageCreateFails(c) ==
    /\ calls[c].pc = "newpage"
    /\ calls' = [calls EXCEPT ![c] = [calls[c] EXCEPT !.pc = "rejected",
                                                      !.thrown = "Error"]]
    /\ UNCHANGED <<rlVars, onError, onErrorLog>>

\* line 344 / 504 resolves
BackoffElapses(c) ==
    /\ calls[c].pc = "backoff"
    /\ calls' = [calls EXCEPT ![c] =
           [calls[c] EXCEPT !.pc = "running",
                            !.slept = Append(calls[c].slept, calls[c].delay)]]
    /\ UNCHANGED <<rlVars, onError, onErrorLog>>

\* lines 348-355 / 531-535
AttemptSucceeds(c) ==
    /\ calls[c].pc = "running"
    /\ calls' = [calls EXCEPT ![c] =
           [calls[c] EXCEPT !.pc = "resolved", !.result = DataOf(calls[c].url)]]
    /\ UNCHANGED <<rlVars, onError, onErrorLog>>

\* the frame after the catch of lines 356-370 / 536-550 decided to go on:
\* harvest computes the delay and sleeps, harvestCustom first opens the page
Retrying(call) ==
    IF call.kind = "harvest"
    THEN [call EXCEPT !.pc = "backoff", !.attempt = call.attempt + 1,
                      !.attempts = call.attempts + 1,
                      !.delay = calculateBackoff(call.attempt + 1 - 1,
                                    call.options.backoff, call.options.maxBackoff)]
    ELSE [call EXCEPT !.pc = "newpage", !.attempt = call.attempt + 1,
                      !.attempts = call.attempts + 1]

\* lines 356-377 / 536-557: the attempt throws
AttemptFails(c, errorName) ==
    /\ calls[c].pc = "running"
    /\ errorName \in FailuresOf(calls[c].kind)
    /\ LET call == [calls[c] EXCEPT !.lastError = errorName] IN
       IF call.attempt < call.options.retries
          /\ shouldRetry(errorName, call.options.retryOn)
       THEN /\ calls' = [calls EXCEPT ![c] = Retrying(call)]
            /\ UNCHANGED onErrorLog
       ELSE /\ onErrorLog' = handleError(c, call.lastError, call.url)
            /\ calls' = [calls EXCEPT ![c] =
                   [call EXCEPT !.pc = "rejected", !.thrown = call.lastError]]
    /\ UNCHANGED <<rlVars, onError>>

\* the harvester after construction
HarvesterFresh ==
    /\ calls = [c \in CallIds |-> IdleCall]
    /\ onErrorLog = <<>>

(***************************************************************************)
(* DOMHarvester.harvestBatch                                               *)
(***************************************************************************)
Jobs == 1..MaxJobs

\* the url of the i-th config
JobUrl(i) == "http://a.test/job" \o ToString(i)

\* config.options || {} of the configs of a batch
JobOptions ==
    {o \in CallOptions :
        /\ o.retries <= 1
        /\ o.backoff = "exponential" /\ o.maxBackoff = DefaultMaxBackoff
        /\ o.retryOn \in {NoList, List({"TimeoutError"})}}

\* configs: n jobs with distinct urls
Configs(n, o) == [i \in 1..n |-> [url |-> JobUrl(i), options |-> o]]

\* options.onProgress: left out, a callback that returns, a callback that throws
ProgressModes == {"none", "returns", "throws"}

NoOutcome == [success |-> FALSE, url |-> Null, data |-> <<>>,
              error |-> <<>>, errorName |-> Null]

\* error.message of the error named so
MessageOf(errorName) == <<"message", errorName>>

\* the promise of the wrapper of line 626 for one config
NoJob == [state |-> "none", outcome |-> NoOutcome]

IdleBatch == [pc |-> "idle", configs |-> <<>>, concurrency |-> 1,
              onProgress |-> "none", i |-> 0, jobs |-> [j \in Jobs |-> NoJob],
              results |-> <<>>, completed |-> 0, total |-> 0,
              progress |-> <<>>, settled |-> <<>>, lap |-> 0]

\* configs.slice(i, i + concurrency), as indices 1..n
ChunkAt(b, i) == {j \in 1..Len(b.configs) : i < j /\ j <= i + b.concurrency}

\* lines 626-634 for every config of the chunk: each wrapper runs into its
\* await of this.harvest, which runs to its own first await
LaunchChunk(b, i) ==
    /\ batch' = [b EXCEPT !.i = i,
                   !.jobs = [j \in Jobs |-> IF j \in ChunkAt(b, i)
                                            THEN [NoJob EXCEPT !.state = "pending"]
                                            ELSE b.jobs[j]]]
    /\ calls' = [c \in CallIds |->
                    IF c \in ChunkAt(b, i)
                    THEN StartedCall("harvest", b.configs[c].url, b.configs[c].options)
                    ELSE calls[c]]

\* lines 611-626: harvestBatch is called
HarvestBatch(configs, concurrency, onProgress) ==
    /\ batch.pc = "idle"
    /\ ~rateLimiter
    /\ LET b == [IdleBatch EXCEPT !.pc = "running", !.configs = configs,
                    !.concurrency = concurrency, !.onProgress = onProgress,
                    !.total = Len(configs)]
       IN IF Len(configs) = 0
          THEN batch' = [b EXCEPT !.pc = "resolved"] /\ UNCHANGED calls
          ELSE LaunchChunk(b, 0)
    /\ UNCHANGED <<rlVars, onError, onErrorLog>>

\* a wrapper whose catch leaves errorName out of the object it returns
JobOutcome_NoErrorName(call) ==
    IF call.pc = "resolved"
    THEN [NoOutcome EXCEPT !.success = TRUE, !.data = call.result, !.url = call.url]
    ELSE [NoOutcome EXCEPT !.success = FALSE, !.error = MessageOf(call.thrown),
                           !.url = call.url]

\* lines 635-638 and 640-649: the object the wrapper returns for a settled call
JobOutcome(call) ==
    IF call.pc = "resolved"
    THEN [NoOutcome EXCEPT !.success = TRUE, !.data = call.result, !.url = call.url]
    ELSE [NoOutcome EXCEPT !.success = FALSE, !.error = MessageOf(call.thrown),
                           !.errorName = call.thrown, !.url = call.url]

\* lines 635-650: this.harvest has settled and the wrapper goes on. A callback
\* that throws in the try is caught by the catch of line 639, which counts and
\* calls it again; thrown from the catch it rejects the wrapper's promise, and
\* with it Promise.all and harvestBatch
JobSettles(j) ==
    /\ batch.jobs[j].state = "pending"
    /\ calls[j].pc \in {"resolved", "rejected"}
    /\ LET b == batch
           one == b.completed + 1
           two == b.completed + 2
       IN batch' =
            IF b.onProgress = "throws"
            THEN [b EXCEPT !.jobs[j].state = "rejected",
                     !.settled = Append(b.settled, j),
                     !.completed = IF calls[j].pc = "resolved" THEN two ELSE one,
                     !.progress = IF calls[j].pc = "resolved"
                                  THEN b.progress \o <<<<one, b.total>>, <<two, b.total>>>>
                                  ELSE Append(b.progress, <<one, b.total>>),
                     !.pc = IF b.pc = "running" THEN "rejected" ELSE b.pc]
            ELSE [b EXCEPT !.jobs[j] = [state |-> "fulfilled",
                                        outcome |-> JobOutcome(calls[j])],
                     !.settled = Append(b.settled, j),
                     !.completed = one,
                     !.progress = IF b.onProgress = "returns"
                                  THEN Append(b.progress, <<one, b.total>>)
                                  ELSE b.progress]
    /\ UNCHANGED <<rlVars, hvVars>>

\* the outcomes of the chunk in the order its jobs settled, as a pool pushing
\* each outcome on completion would collect them
ChunkResults_CompletionOrder(b) ==
    LET done == SelectSeq(b.settled, LAMBDA j : j \in ChunkAt(b, b.i))
    IN [k \in 1..Len(done) |-> b.jobs[done[k]].outcome]

\* what Promise.all resolves to: the outcomes in the order of the chunk
ChunkResults(b) ==
    [k \in 1..Cardinality(ChunkAt(b, b.i)) |-> b.jobs[b.i + k].outcome]

\* a pool that takes the next jobs as soon as one job of the chunk has settled
ChunkSettles_AnySettled ==
    /\ batch.pc = "running"
    /\ \E j \in ChunkAt(batch, batch.i) : batch.jobs[j].state = "fulfilled"
    /\ LET b == [batch EXCEPT !.results = batch.results \o ChunkResults(batch)]
           next == batch.i + batch.concurrency
       IN IF next < Len(batch.configs)
          THEN LaunchChunk(b, next)
          ELSE batch' = [b EXCEPT !.pc = "resolved"] /\ UNCHANGED calls
    /\ UNCHANGED <<rlVars, onError, onErrorLog>>

\* lines 653-664: Promise.all resolves; the next chunk is launched, or the
\* results are returned. lap tells one turn of the loop from the next
ChunkSettles ==
    /\ batch.pc = "running"
    /\ \A j \in ChunkAt(batch, batch.i) : batch.jobs[j].state = "fulfilled"
    /\ LET b == [batch EXCEPT !.results = batch.results \o ChunkResults(batch),
                              !.lap = 1 - batch.lap]
           next == batch.i + batch.concurrency
       IN IF next < Len(batch.configs)
          THEN LaunchChunk(b, next)
          ELSE batch' = [b EXCEPT !.pc = "resolved"] /\ UNCHANGED calls
    /\ UNCHANGED <<rlVars, onError, onErrorLog>>

BatchFresh == batch = IdleBatch

(***************************************************************************)
(* SessionManager                                                          *)
(***************************************************************************)
\* two SessionManager instances built on the same storageDir
Managers == {"m1", "m2"}
StorageDir == "./sessions"

\* session ids, as sequences of pieces of text: 'alice' and 'data.jsonl'
SessionIds == {<<"alice">>, <<"data", ".json", "l">>}

\* a file name that leaves the id out
SessionFile_WithoutId(id) == <<".json">>

\* `${sessionId}.json`
SessionFile(id) == id \o <<".json">>

\* join(this.storageDir, `${sessionId}.json`)
SessionPath(id) == [dir |-> StorageDir, file |-> SessionFile(id)]

NoPath == [dir |-> Null, file |-> <<>>]

FileNames == {SessionFile(id) : id \in SessionIds} \cup {<<".json">>}

\* browser contexts: their cookies, localStorage and sessionStorage
NoContext == [cookies |-> Null, localStorage |-> Null, sessionStorage |-> Null]
Contexts ==
    { [cookies |-> "cookies1", localStorage |-> "local1", sessionStorage |-> "tab1"],
      [cookies |-> "cookies2", localStorage |-> "local2", sessionStorage |-> Null] }

NoFile == [exists |-> FALSE, cookies |-> Null, origins |-> Null]

\* context.storageState(): the cookies and the localStorage of every origin
storageState(ctx) ==
    [exists |-> TRUE, cookies |-> ctx.cookies, origins |-> ctx.localStorage]

\* browser.newContext({ storageState }): a context holding the file's state
newContext(file) ==
    [cookies |-> file.cookies, localStorage |-> file.origins, sessionStorage |-> Null]

\* fs.existsSync(path)
existsSync(path) ==
    dirExists /\ path.dir = StorageDir /\ path.file \in FileNames
              /\ files[path.file].exists

\* the durable record of id
RecordExists(id) == dirExists /\ files[SessionFile(id)].exists

\* this.sessions.get(sessionId) || join(this.storageDir, `${sessionId}.json`)
CachedOrJoined(m, id) ==
    IF sessions[m][id] # NoPath THEN sessions[m][id] ELSE SessionPath(id)

\* lines 213-223
hasSession(m, id) ==
    IF sessions[m][id] # NoPath THEN TRUE ELSE existsSync(SessionPath(id))

\* a lookup that trusts the index as hasSession does
loadFinds_TrustsIndex(m, id) == hasSession(m, id)

\* line 191 of loadSession: whether the record is found
loadFinds(m, id) == existsSync(CachedOrJoined(m, id))

NoPending == [op |-> "none", id |-> <<>>, path |-> NoPath, ctx |-> NoContext,
              existed |-> FALSE]

NoSaved == [valid |-> FALSE, ctx |-> NoContext, overwrote |-> FALSE]

NoCall == [op |-> "none", manager |-> Null, id |-> <<>>, value |-> FALSE,
           error |-> Null, ctx |-> NoContext, existed |-> FALSE,
           saved |-> NoSaved, ids |-> {}]

\* a saveSession of id has begun or ended: the id is no longer a deleted one
Undeleted(id) == [m \in Managers |-> [deleted[m] EXCEPT ![id] = FALSE]]

\* lines 153-165: the directory is made, storageState is asked for the file
SaveSession(m, id, ctx) ==
    /\ pending[m].op = "none"
    /\ dirExists' = TRUE
    /\ pending' = [pending EXCEPT ![m] =
           [NoPending EXCEPT !.op = "save", !.id = id, !.ctx = ctx,
                             !.path = SessionPath(id)]]
    /\ deleted' = Undeleted(id)
    /\ lastCall' = NoCall
    /\ UNCHANGED <<files, sessions, lastSaved>>

\* lines 165-170: the file is written, the path cached and returned
SaveCompletes(m) ==
    /\ pending[m].op = "save"
    /\ LET id == pending[m].id
           file == pending[m].path.file
       IN /\ files' = [files EXCEPT ![file] = storageState(pending[m].ctx)]
          /\ sessions' = [sessions EXCEPT ![m][id] = pending[m].path]
          /\ lastSaved' = [lastSaved EXCEPT ![id] =
                 [valid |-> TRUE, ctx |-> pending[m].ctx,
                  overwrote |-> /\ existsSync(pending[m].path)
                                /\ files[file] # storageState(pending[m].ctx)]]
          /\ deleted' = Undeleted(id)
          /\ lastCall' = [NoCall EXCEPT !.op = "save", !.manager = m, !.id = id,
                                        !.value = TRUE]
    /\ pending' = [pending EXCEPT ![m] = NoPending]
    /\ UNCHANGED dirExists

\* line 165 rejects (the context is closed): nothing is written or cached
SaveFails(m) ==
    /\ pending[m].op = "save"
    /\ pending' = [pending EXCEPT ![m] = NoPending]
    /\ lastCall' = [NoCall EXCEPT !.op = "save", !.manager = m,
                                  !.id = pending[m].id, !.error = "EngineError"]
    /\ UNCHANGED <<dirExists, files, sessions, lastSaved, deleted>>

\* lines 185-198: the record is looked for; found, newContext is asked to
\* read it, else the call throws
LoadSession(m, id) ==
    /\ pending[m].op = "none"
    /\ IF loadFinds(m, id)
       THEN /\ pending' = [pending EXCEPT ![m] =
                   [NoPending EXCEPT !.op = "load", !.id = id,
                                     !.path = CachedOrJoined(m, id),
                                     !.existed = RecordExists(id)]]
            /\ lastCall' = NoCall
       ELSE /\ lastCall' = [NoCall EXCEPT !.op = "load", !.manager = m, !.id = id,
                                          !.error = "Session not found",
                                          !.existed = RecordExists(id)]
            /\ UNCHANGED pending
    /\ UNCHANGED <<dirExists, files, sessions, lastSaved, deleted>>

\* lines 196-200: newContext has read the file, or failed to
LoadCompletes(m) ==
    /\ pending[m].op = "load"
    /\ LET id == pending[m].id
           path == pending[m].path
       IN lastCall' =
            IF existsSync(path)
            THEN [NoCall EXCEPT !.op = "load", !.manager = m, !.id = id,
                                !.value = TRUE, !.ctx = newContext(files[path.file]),
                                !.existed = pending[m].existed,
                                !.saved = lastSaved[id]]
            ELSE [NoCall EXCEPT !.op = "load", !.manager = m, !.id = id,
                                !.error = "EngineError",
                                !.existed = pending[m].existed]
    /\ pending' = [pending EXCEPT ![m] = NoPending]
    /\ UNCHANGED <<dirExists, files, sessions, lastSaved, deleted>>

\* lines 213-223
HasSession(m, id) ==
    /\ lastCall' = [NoCall EXCEPT !.op = "has", !.manager = m, !.id = id,
                                  !.value = hasSession(m, id),
                                  !.existed = RecordExists(id)]
    /\ UNCHANGED <<dirExists, files, sessions, pending, lastSaved, deleted>>

\* a delete that empties the store
DeleteSession_ClearsStore(m, id) ==
    /\ files' = [f \in FileNames |-> NoFile]
    /\ sessions' = [sessions EXCEPT ![m][id] = NoPath]
    /\ lastCall' = [NoCall EXCEPT !.op = "delete", !.manager = m, !.id = id,
                                  !.value = existsSync(CachedOrJoined(m, id)),
                                  !.existed = RecordExists(id)]
    /\ lastSaved' = [lastSaved EXCEPT ![id] = NoSaved]
    /\ deleted' = [deleted EXCEPT ![m][id] = TRUE]
    /\ UNCHANGED <<dirExists, pending>>

\* lines 234-247
DeleteSession(m, id) ==
    /\ LET path == CachedOrJoined(m, id) IN
       IF existsSync(path)
       THEN /\ files' = [files EXCEPT ![path.file] = NoFile]
            /\ sessions' = [sessions EXCEPT ![m][id] = NoPath]
            /\ lastCall' = [NoCall EXCEPT !.op = "delete", !.manager = m, !.id = id,
                                          !.value = TRUE,
                                          !.existed = RecordExists(id)]
       ELSE /\ UNCHANGED <<files, sessions>>
            /\ lastCall' = [NoCall EXCEPT !.op = "delete", !.manager = m, !.id = id,
                                          !.value = FALSE,
                                          !.existed = RecordExists(id)]
    /\ lastSaved' = [lastSaved EXCEPT ![id] = NoSaved]
    /\ deleted' = [deleted EXCEPT ![m][id] = TRUE]
    /\ UNCHANGED <<dirExists, pending>>

\* file.endsWith('.json')
endsWith(file, suffix) == file # <<>> /\ file[Len(file)] = suffix

\* file.replace('.json', ''): the first '.json' of the name is taken out
replace(file, pattern) ==
    IF \E i \in DOMAIN file : file[i] = pattern
    THEN LET first == CHOOSE i \in DOMAIN file :
                          /\ file[i] = pattern
                          /\ \A k \in 1..(i - 1) : file[k] # pattern
         IN SubSeq(file, 1, first - 1) \o SubSeq(file, first + 1, Len(file))
    ELSE file

\* readdirSync(this.storageDir)
readdirSync == {f \in FileNames : files[f].exists}

\* lines 257-268
listSessions ==
    IF ~dirExists THEN {}
    ELSE {replace(f, ".json") : f \in {g \in readdirSync : endsWith(g, ".json")}}

ListSessions(m) ==
    /\ lastCall' = [NoCall EXCEPT !.op = "list", !.manager = m, !.ids = listSessions]
    /\ UNCHANGED <<dirExists, files, sessions, pending, lastSaved, deleted>>

\* a record made by other means than this process's managers
ExternalWrite(id, ctx) ==
    /\ dirExists' = TRUE
    /\ files' = [files EXCEPT ![SessionFile(id)] = storageState(ctx)]
    /\ lastSaved' = [lastSaved EXCEPT ![id] = NoSaved]
    /\ deleted' = Undeleted(id)
    /\ lastCall' = NoCall
    /\ UNCHANGED <<sessions, pending>>

\* a record removed by other means
ExternalRemove(id) ==
    /\ RecordExists(id)
    /\ files' = [files EXCEPT ![SessionFile(id)] = NoFile]
    /\ lastSaved' = [lastSaved EXCEPT ![id] = NoSaved]
    /\ lastCall' = NoCall
    /\ UNCHANGED <<dirExists, sessions, pending, deleted>>

\* the managers after construction, on a storageDir that is not there yet
StoreFresh ==
    /\ dirExists = FALSE
    /\ files = [f \in FileNames |-> NoFile]
    /\ sessions = [m \in Managers |-> [id \in SessionIds |-> NoPath]]
    /\ pending = [m \in Managers |-> NoPending]
    /\ lastCall = NoCall
    /\ lastSaved = [id \in SessionIds |-> NoSaved]
    /\ deleted = [m \in Managers |-> [id \in SessionIds |-> FALSE]]

(***************************************************************************)
(* Extraction schemas (dsl.js)                                             *)
(***************************************************************************)
\* JavaScript values: t is the type, s the text of a primitive, l the parts
JsVal(t, s, l) == [t |-> t, s |-> s, l |-> l]
Str(x) == JsVal("string", x, <<>>)
JsUndefined == JsVal("undefined", "", <<>>)
JsNull == JsVal("null", "", <<>>)
Bool(b) == JsVal("boolean", IF b THEN "true" ELSE "false", <<>>)
Num(n) == JsVal("number", ToString(n), <<>>)
Arr(xs) == JsVal("array", "", xs)
\* an object is its entries, in insertion order
Fld(k, v) == JsVal("entry", k, <<v>>)
Obj(entries) == JsVal("object", "", entries)
\* a function: what it computes, and the form of its source text
Fn(body, form) == JsVal("function", body, <<Str(form)>>)
\* a DOM element held as a value
ElemRef(n) == JsVal("element", ToString(n), <<>>)
\* an exception on its way up
Thrown(name) == JsVal("throw", name, <<>>)

\* key in obj, obj[key]
Has(obj, key) == obj.t = "object" /\ \E i \in DOMAIN obj.l : obj.l[i].s = key
Get(obj, key) ==
    IF Has(obj, key)
    THEN obj.l[CHOOSE i \in DOMAIN obj.l : obj.l[i].s = key].l[1]
    ELSE JsUndefined

\* the conversion to boolean of `value &&` and `value ?`
Truthy(v) ==
    CASE v.t \in {"undefined", "null"} -> FALSE
      [] v.t = "string" -> v.s # ""
      [] v.t = "boolean" -> v.s = "true"
      [] v.t = "number" -> v.s # "0"
      [] OTHER -> TRUE

\* typeof value === 'object'
TypeofObject(v) == v.t \in {"object", "array", "null"}

\* the first exception of a list of results, or the results
FirstThrown(xs) == xs[CHOOSE i \in DOMAIN xs :
                        xs[i].t = "throw" /\ \A j \in 1..(i - 1) : xs[j].t # "throw"]
Threw(xs) == \E i \in DOMAIN xs : xs[i].t = "throw"

\* destructuring with a default: the default stands in for undefined
OrDefault(v, d) == IF v = JsUndefined THEN d ELSE v

\* lines 14-22
text(selector, options) ==
    Obj(<<Fld("__dsl", Str("text")), Fld("selector", selector),
          Fld("trim", OrDefault(Get(options, "trim"), Bool(TRUE))),
          Fld("default", OrDefault(Get(options, "default"), JsNull))>>)

\* lines 32-40
attr(selector, attribute, options) ==
    Obj(<<Fld("__dsl", Str("attr")), Fld("selector", selector),
          Fld("attribute", attribute),
          Fld("default", OrDefault(Get(options, "default"), JsNull))>>)

\* lines 48-54
array(selector, extractor) ==
    Obj(<<Fld("__dsl", Str("array")), Fld("selector", selector),
          Fld("extractor", extractor)>>)

\* lines 61-66
exists(selector) ==
    Obj(<<Fld("__dsl", Str("exists")), Fld("selector", selector)>>)

\* lines 75-82
html(selector, options) ==
    Obj(<<Fld("__dsl", Str("html")), Fld("selector", selector),
          Fld("default", OrDefault(Get(options, "default"), JsNull))>>)

\* lines 89-94
count(selector) ==
    Obj(<<Fld("__dsl", Str("count")), Fld("selector", selector)>>)

\* lines 102-104
isDSL(value) == Truthy(value) /\ TypeofObject(value) /\ Has(value, "__dsl")

(***************************************************************************)
(* The document of a page                                                  *)
(***************************************************************************)
\* elements are numbered in document order; 0 is the document, and null
NumElements == 7
Elements == 1..NumElements
NoElement == 0

\* the parent of each element: two top-level elements with two children
\* each, and a last element beside them
ParentOf == <<0, 1, 1, 0, 4, 4, 0>>

\* the pages: the class of each element, and whether elements 2 and 5 carry
\* an href attribute
Pages ==
    {[cls |-> <<"item", c2, "tag", "item", c5, "tag", "tag">>, href |-> h] :
        c2 \in {"title", "tag"}, c5 \in {"title", "tag"}, h \in BOOLEAN}

\* element.textContent, with white space around it
TextContent(n) == " t" \o ToString(n) \o " "
\* String.prototype.trim
Trim(x) ==
    IF \E n \in Elements : x = TextContent(n)
    THEN "t" \o ToString(CHOOSE n \in Elements : x = TextContent(n))
    ELSE x
\* element.innerHTML
InnerHTML(n) == "<i>" \o ToString(n) \o "</i>"
\* element.getAttribute(name): the value, or null
getAttribute(page, n, name) ==
    IF name = Str("href") /\ page.href /\ n \in {2, 5}
    THEN Str("/link" \o ToString(n)) ELSE JsNull

RECURSIVE IsDescendant(_, _)
IsDescendant(n, root) ==
    IF n = 0 THEN FALSE
    ELSE ParentOf[n] = root \/ IsDescendant(ParentOf[n], root)

\* root.querySelectorAll(selector): the matching descendants, in document order
querySelectorAll(page, root, selector) ==
    SelectSeq([n \in Elements |-> n],
              LAMBDA n : IsDescendant(n, root) /\ selector.t = "string"
                         /\ page.cls[n] = selector.s)

\* a querySelector that searches the whole document
querySelector_FromDocument(page, root, selector) ==
    LET all == querySelectorAll(page, 0, selector)
    IN IF all = <<>> THEN NoElement ELSE all[1]

\* root.querySelector(selector): the first match, or null
querySelector(page, root, selector) ==
    LET all == querySelectorAll(page, root, selector)
    IN IF all = <<>> THEN NoElement ELSE all[1]

\* what the callbacks of the model compute on an element
Apply(page, fn, el) ==
    CASE fn.s = "ownText" -> Str(Trim(TextContent(el)))
      [] fn.s = "countTags" -> Num(Len(querySelectorAll(page, el, Str("tag"))))
      [] fn.s = "titleText" ->
           IF querySelector(page, el, Str("title")) = NoElement
           THEN Thrown("TypeError")
           ELSE Str(TextContent(querySelector(page, el, Str("title"))))
      [] fn.s = "throws" -> Thrown("Error")
      [] OTHER -> Thrown("ReferenceError")

RECURSIVE executeDSLExtraction(_, _, _)
RECURSIVE executeDSLObject(_, _, _)

\* lines 113-165
executeDSLExtraction(page, element, dslDef) ==
    LET selector == Get(dslDef, "selector")
        targetElement == IF Truthy(selector)
                         THEN querySelector(page, element, selector)
                         ELSE element
        kind == Get(dslDef, "__dsl")
    IN CASE kind = Str("text") ->
              IF targetElement = NoElement THEN Get(dslDef, "default")
              ELSE IF Truthy(Get(dslDef, "trim"))
                   THEN Str(Trim(TextContent(targetElement)))
                   ELSE Str(TextContent(targetElement))
         [] kind = Str("attr") ->
              LET attrValue == IF targetElement = NoElement THEN JsUndefined
                               ELSE getAttribute(page, targetElement,
                                                 Get(dslDef, "attribute"))
              IN IF attrValue # JsNull THEN attrValue ELSE Get(dslDef, "default")
         [] kind = Str("html") ->
              IF targetElement = NoElement THEN Get(dslDef, "default")
              ELSE Str(InnerHTML(targetElement))
         [] kind = Str("exists") -> Bool(targetElement # NoElement)
         [] kind = Str("count") ->
              Num(Len(querySelectorAll(page, element, selector)))
         [] kind = Str("array") ->
              LET elements == querySelectorAll(page, element, selector)
                  extractor == Get(dslDef, "extractor")
                  items == [i \in DOMAIN elements |->
                      IF isDSL(extractor)
                      THEN executeDSLExtraction(page, elements[i], extractor)
                      ELSE IF TypeofObject(extractor)
                      THEN executeDSLObject(page, elements[i], extractor)
                      ELSE IF extractor.t = "function"
                      THEN Apply(page, extractor, elements[i])
                      ELSE ElemRef(elements[i])]
              IN IF Threw(items) THEN FirstThrown(items) ELSE Arr(items)
         [] OTHER -> JsNull

\* lines 174-193
executeDSLObject(page, element, schema) ==
    \* Object.entries(null) throws
    IF schema.t # "object" THEN Thrown("TypeError") ELSE
    LET values == [i \in DOMAIN schema.l |->
            LET value == schema.l[i].l[1] IN
            IF isDSL(value) THEN executeDSLExtraction(page, element, value)
            ELSE IF TypeofObject(value) /\ value # JsNull
            THEN executeDSLObject(page, element, value)
            ELSE IF value.t = "function" THEN Apply(page, value, element)
            ELSE value]
    IN IF Threw(values) THEN FirstThrown(values)
       ELSE Obj([i \in DOMAIN schema.l |-> Fld(schema.l[i].s, values[i])])

RECURSIVE hasMixedMode(_)
\* lines 201-214
hasMixedMode(schema) ==
    \E i \in DOMAIN schema.l :
        LET value == schema.l[i].l[1] IN
        \/ value.t = "function"
        \/ /\ TypeofObject(value) /\ value # JsNull /\ ~isDSL(value)
           /\ hasMixedMode(value)

RECURSIVE isUsingDSL(_)
\* lines 397-408
isUsingDSL(extractor) ==
    /\ extractor.t # "function"
    /\ TypeofObject(extractor) /\ extractor # JsNull
    /\ \E i \in DOMAIN extractor.l :
          LET value == extractor.l[i].l[1] IN
          isDSL(value) \/ (TypeofObject(value) /\ isUsingDSL(value))

\* lines 359-390
createExtractor(extractorOrSchema) ==
    IF extractorOrSchema.t = "function" THEN extractorOrSchema
    ELSE IF TypeofObject(extractorOrSchema) /\ extractorOrSchema # JsNull
    THEN IF isUsingDSL(extractorOrSchema)
         THEN IF hasMixedMode(extractorOrSchema)
              THEN Obj(<<Fld("__isDSLSchema", Bool(TRUE)),
                         Fld("__isMixedMode", Bool(TRUE)),
                         Fld("schema", extractorOrSchema)>>)
              ELSE Obj(<<Fld("__isDSLSchema", Bool(TRUE)),
                         Fld("schema", extractorOrSchema)>>)
         ELSE Fn("hostClosure", "arrow")
    ELSE Fn("identity", "arrow")

\* `__FUNC_${functionIndex++}__`
Marker(i) == "__FUNC_" \o ToString(i) \o "__"

RECURSIVE replaceFunctions(_, _)
RECURSIVE ReplaceInEntries(_, _)
\* lines 228-245: the object with its functions replaced by markers, and the
\* functions collected so far, in the order they were met
replaceFunctions(obj, functions) ==
    IF obj.t = "function"
    THEN [v |-> Str(Marker(Len(functions))), functions |-> Append(functions, obj)]
    ELSE IF isDSL(obj) THEN [v |-> obj, functions |-> functions]
    ELSE IF obj.t = "object"
    THEN LET r == ReplaceInEntries(obj.l, functions)
         IN [v |-> Obj(r.l), functions |-> r.functions]
    ELSE [v |-> obj, functions |-> functions]

\* lines 238-242: the loop over the entries
ReplaceInEntries(entries, functions) ==
    IF entries = <<>> THEN [l |-> <<>>, functions |-> functions]
    ELSE LET head == replaceFunctions(entries[1].l[1], functions)
             rest == ReplaceInEntries(Tail(entries), head.functions)
         IN [l |-> <<Fld(entries[1].s, head.v)>> \o rest.l,
             functions |-> rest.functions]

RECURSIVE JSONStringify(_)
\* JSON.stringify, read back as the literal it writes: entries holding a
\* function or undefined are left out, such items of an array become null
JSONStringify(value) ==
    CASE value.t = "object" ->
           LET kept == SelectSeq(value.l,
                           LAMBDA e : e.l[1].t \notin {"function", "undefined"})
           IN Obj([i \in DOMAIN kept |-> Fld(kept[i].s, JSONStringify(kept[i].l[1]))])
      [] value.t = "array" ->
           Arr([i \in DOMAIN value.l |->
                  IF value.l[i].t \in {"function", "undefined"} THEN JsNull
                  ELSE JSONStringify(value.l[i])])
      [] value.t = "element" -> Obj(<<>>)
      [] OTHER -> value

\* an identifier in generated code
Ident(name) == JsVal("identifier", name, <<>>)

RECURSIVE ReplaceFirst(_, _)
RECURSIVE ReplaceFirstIn(_, _)
\* line 258, String.prototype.replace(`"${key}"`, key) on the literal: the
\* first string equal to the key, in the order of the text, becomes the
\* identifier
ReplaceFirst(literal, key) ==
    CASE literal.t = "string" ->
           IF literal.s = key THEN [v |-> Ident(key), done |-> TRUE]
           ELSE [v |-> literal, done |-> FALSE]
      [] literal.t \in {"object", "array", "entry"} ->
           LET r == ReplaceFirstIn(literal.l, key)
           IN [v |-> JsVal(literal.t, literal.s, r.l), done |-> r.done]
      [] OTHER -> [v |-> literal, done |-> FALSE]

ReplaceFirstIn(parts, key) ==
    IF parts = <<>> THEN [l |-> <<>>, done |-> FALSE]
    ELSE LET head == ReplaceFirst(parts[1], key)
         IN IF head.done THEN [l |-> <<head.v>> \o Tail(parts), done |-> TRUE]
            ELSE LET rest == ReplaceFirstIn(Tail(parts), key)
                 IN [l |-> <<parts[1]>> \o rest.l, done |-> rest.done]

RECURSIVE Reconstruction(_, _, _)
\* lines 256-259: the loop over the keys of functions, from key i on
Reconstruction(literal, i, n) ==
    IF i >= n THEN literal
    ELSE Reconstruction(ReplaceFirst(literal, Marker(i)).v, i + 1, n)

\* fn.toString()
SourceOf(fn) == JsVal("source", fn.s, fn.l)

\* generated code: the schema literal and the `const key = source;` lines
Code(literal, defs) == JsVal("code", "", <<literal, Arr(defs)>>)

\* lines 222-342
generateMixedModeCode(schema) ==
    LET r == replaceFunctions(schema, <<>>)
        schemaStr == JSONStringify(r.v)
        functionDefs == [i \in DOMAIN r.functions |-> SourceOf(r.functions[i])]
    IN Code(Reconstruction(schemaStr, 0, Len(r.functions)), functionDefs)

\* a compiler that hands the schema out once, and an empty one on the
\* compilations that follow a harvest
generateDSLCode_Once(schema) ==
    Code(JSONStringify(IF extraction.pc = "done" THEN Obj(<<>>) ELSE schema), <<>>)

\* lines 417-500
generateDSLCode(schema) == Code(JSONStringify(schema), <<>>)

\* whether source text is an expression: that of a method written in
\* shorthand, `name(el) { ... }`, is not
IsExpression(source) == source.l[1] # Str("method")

RECURSIVE Bind(_, _)
\* the schema literal evaluated in the page: each identifier is the function
\* its const line defines
Bind(literal, defs) ==
    CASE literal.t = "identifier" ->
           LET i == CHOOSE i \in DOMAIN defs : Marker(i - 1) = literal.s
           IN JsVal("function", defs[i].s, defs[i].l)
      [] literal.t \in {"object", "array", "entry"} ->
           JsVal(literal.t, literal.s,
                 [i \in DOMAIN literal.l |-> Bind(literal.l[i], defs)])
      [] OTHER -> literal

\* new Function('return ' + code)(): the procedure, or a SyntaxError
NewFunction(code) ==
    IF code.t = "source"
    THEN IF IsExpression(code) THEN JsVal("function", code.s, code.l)
         ELSE Thrown("SyntaxError")
    ELSE LET defs == code.l[2].l
         IN IF \E i \in DOMAIN defs : ~IsExpression(defs[i])
            THEN Thrown("SyntaxError")
            ELSE JsVal("procedure", "", <<Bind(code.l[1], defs)>>)

\* fn(el) in the page
Run(page, fn, el) ==
    IF fn.t = "function"
    THEN CASE fn.s = "identity" -> ElemRef(el)
           [] fn.s = "defaultRecord" ->
                Obj(<<Fld("text", Str(Trim(TextContent(el)))),
                      Fld("html", Str(InnerHTML(el))), Fld("tag", Str("div"))>>)
           [] OTHER -> Apply(page, fn, el)
    ELSE executeDSLObject(page, el, fn.l[1])

\* a $$eval that leaves out the elements its function throws on
EvalOnSelectorAll_SkipsFailures(page, selector, code) ==
    LET fn == NewFunction(code)
        elements == querySelectorAll(page, 0, selector)
        results == [i \in DOMAIN elements |-> Run(page, fn, elements[i])]
    IN IF fn.t = "throw" THEN fn
       ELSE Arr(SelectSeq(results, LAMBDA r : r.t # "throw"))

\* page.$$eval(selector, (elements, code) => { fn = new Function(...)();
\* return elements.map(el => fn(el)) }, code): the list, or what was thrown
EvalOnSelectorAll(page, selector, code) ==
    LET fn == NewFunction(code)
        elements == querySelectorAll(page, 0, selector)
        results == [i \in DOMAIN elements |-> Run(page, fn, elements[i])]
    IN IF fn.t = "throw" THEN fn
       ELSE IF Threw(results) THEN FirstThrown(results) ELSE Arr(results)

\* lines 1018-1061 of _performHarvest: what is sent to the page
CodeFor(extractor) ==
    IF Truthy(extractor)
    THEN LET extractorFn == createExtractor(extractor) IN
         IF Truthy(extractorFn) /\ TypeofObject(extractorFn)
            /\ Truthy(Get(extractorFn, "__isDSLSchema"))
         THEN IF Truthy(Get(extractorFn, "__isMixedMode"))
              THEN generateMixedModeCode(Get(extractorFn, "schema"))
              ELSE generateDSLCode(Get(extractorFn, "schema"))
         ELSE SourceOf(extractorFn)
    ELSE SourceOf(Fn("defaultRecord", "arrow"))

\* the default given to the descriptors of the model
Fallback == Obj(<<Fld("default", Str("N/A"))>>)
NoOpts == Obj(<<>>)

\* the values the fields of the schemas of the model are taken from
FieldValues ==
    { text(Str("title"), Fallback), text(Str("missing"), Fallback),
      text(Str("title"), Obj(<<Fld("trim", Bool(FALSE))>>)),
      attr(Str("title"), Str("href"), Fallback),
      attr(Str("missing"), Str("href"), Fallback),
      html(Str("missing"), Fallback), html(Str("title"), NoOpts),
      exists(Str("title")), count(Str("tag")),
      array(Str("tag"), text(JsUndefined, NoOpts)),
      array(Str("tag"), Obj(<<Fld("name", text(JsUndefined, NoOpts)),
                              Fld("link", attr(JsUndefined, Str("href"), Fallback))>>)),
      array(Str("tag"), Fn("ownText", "arrow")),
      array(Str("tag"), Obj(<<Fld("name", text(JsUndefined, NoOpts)),
                              Fld("size", Fn("countTags", "arrow"))>>)),
      Fn("ownText", "arrow"), Fn("countTags", "method"), Fn("throws", "arrow"),
      Fn("titleText", "arrow"),
      Obj(<<Fld("inner", text(Str("title"), Fallback))>>),
      Obj(<<Fld("made", Fn("countTags", "arrow"))>>),
      text(Str("missing"), Obj(<<Fld("default", Str(Marker(0)))>>)) }

\* the extractors: schemas of one and of two fields, a callback, and none
Extractors ==
    {Obj(<<Fld("first", v)>>) : v \in FieldValues}
    \cup {Obj(<<Fld("first", v), Fld("second", w)>>) : v, w \in FieldValues}
    \cup {Fn("ownText", "arrow"), Fn("throws", "arrow"), JsNull}

RootSelector == Str("item")

NoResult == [ok |-> FALSE, records |-> JsNull, errorName |-> Null,
             url |-> Null, selector |-> JsNull, cause |-> Null]

\* no harvest before this one
NoPrevious == [set |-> FALSE, page |-> CHOOSE p \in Pages : TRUE,
               extractor |-> JsNull, outcome |-> NoResult]

IdleExtraction == [pc |-> "idle", url |-> Null, page |-> CHOOSE p \in Pages : TRUE,
                   selector |-> JsNull, extractor |-> JsNull,
                   code |-> JsNull, outcome |-> NoResult,
                   previous |-> NoPrevious]

\* lines 1018-1061: the extraction phase of _performHarvest is entered, on a
\* page that is loaded and holds the selector; the code is sent to the page
Extract(url, page, selector, extractor) ==
    /\ extraction.pc = "idle"
    /\ querySelectorAll(page, 0, selector) # <<>>
    /\ extraction' = [IdleExtraction EXCEPT !.pc = "evaluating", !.url = url,
                         !.page = page, !.selector = selector,
                         !.extractor = extractor, !.code = CodeFor(extractor)]

\* lines 1063-1064: $$eval resolves and the records are returned
ExtractResolves ==
    /\ extraction.pc = "evaluating"
    /\ LET r == EvalOnSelectorAll(extraction.page, extraction.selector,
                                  extraction.code)
       IN /\ r.t # "throw"
          /\ extraction' = [extraction EXCEPT !.pc = "done",
                 !.outcome = [NoResult EXCEPT !.ok = TRUE, !.records = r]]

\* lines 1065-1070: $$eval rejects and ExtractionError is thrown
ExtractRejects ==
    /\ extraction.pc = "evaluating"
    /\ LET r == EvalOnSelectorAll(extraction.page, extraction.selector,
                                  extraction.code)
       IN /\ r.t = "throw"
          /\ extraction' = [extraction EXCEPT !.pc = "done",
                 !.outcome = [NoResult EXCEPT !.errorName = "ExtractionError",
                                 !.url = extraction.url,
                                 !.selector = extraction.selector,
                                 !.cause = r.s]]

\* the harvester is ready for the next harvest
ExtractDone ==
    /\ extraction.pc = "done"
    /\ extraction' = IdleExtraction

\* harvest is called again on the harvester, after a harvest that has come
\* to its end: the schema is compiled anew and sent to the page
ExtractAgain(url, page, selector, extractor) ==
    /\ extraction.pc = "done"
    /\ querySelectorAll(page, 0, selector) # <<>>
    /\ extraction' = [IdleExtraction EXCEPT !.pc = "evaluating", !.url = url,
                         !.page = page, !.selector = selector,
                         !.extractor = extractor, !.code = CodeFor(extractor),
                         !.previous = [set |-> TRUE, page |-> extraction.page,
                                       extractor |-> extraction.extractor,
                                       outcome |-> extraction.outcome]]

\* whether a value holds a function, at any depth
RECURSIVE HasCallback(_)
HasCallback(value) ==
    \/ value.t = "function"
    \/ \E i \in DOMAIN value.l : HasCallback(value.l[i])

\* the extractors harvest is called with twice: the schemas of one field
\* without a callback, and a callback that throws
RepeatedExtractors ==
    {e \in Extractors : e.t = "object" /\ Len(e.l) = 1 /\ ~HasCallback(e)}
    \cup {Fn("throws", "arrow")}

ExtractionFresh == extraction = IdleExtraction

(***************************************************************************)
(* calculateBackoff called on its own (harvester.js 282-288)               *)
(***************************************************************************)
\* the strategies and the caps it is called with
Strategies == {"exponential", "linear"}
Caps == {0, 1, 999, 1000, 1500, 2500, 4000, 10000, 16000, 1000000}

\* a call with argc arguments: attempt alone, attempt and strategy, or all three
BackoffCalls ==
    [pc : {"called"}, attempt : 0..MaxAttempt, strategy : Strategies,
     maxBackoff : Caps, argc : 1..3, result : {0}]

\* line 282: a parameter that is not passed takes its default
StrategyOf(call) == IF call.argc >= 2 THEN call.strategy ELSE "exponential"
MaxBackoffOf(call) == IF call.argc >= 3 THEN call.maxBackoff ELSE DefaultMaxBackoff

\* lines 282-288: the call returns
BackoffReturns ==
    /\ backoffCall.pc = "called"
    /\ backoffCall' =
          [backoffCall EXCEPT !.pc = "returned",
              !.result = calculateBackoff(backoffCall.attempt,
                                          StrategyOf(backoffCall),
                                          MaxBackoffOf(backoffCall))]

\* the next call
BackoffCalled(call) ==
    /\ backoffCall.pc = "returned"
    /\ backoffCall' = call

BackoffFresh ==
    backoffCall = [pc |-> "called", attempt |-> 0, strategy |-> "exponential",
                   maxBackoff |-> DefaultMaxBackoff, argc |-> 3, result |-> 0]

(***************************************************************************)
(* The convenience function harvest (harvester.js 676-688), with init and  *)
(* close of the DOMHarvester it creates (238-261, 304-307)                 *)
(***************************************************************************)
\* this.browser / this.context: null, open, or closed
IdleOneOff == [pc |-> "idle", cookies |-> FALSE, browser |-> "none",
               context |-> "none", closeCalled |-> FALSE, closeFailed |-> FALSE,
               settled |-> "none", error |-> Null, result |-> Null]

\* a close that leaves the browser alone when there is no context
close_ContextOnly(f) ==
    IF f.context = "open" THEN "closeContext" ELSE "exited"

\* lines 304-307: the await close() comes to, or none
close(f) ==
    IF f.context = "open" THEN "closeContext"
    ELSE IF f.browser = "open" THEN "closeBrowser"
    ELSE "exited"

\* line 687: the finally block calls close()
Finally(f) == [f EXCEPT !.closeCalled = TRUE, !.pc = close(f)]

\* lines 676-684: the function is called; the harvester is constructed and
\* init awaits chromium.launch
OneOffCalled(cookies) ==
    /\ oneOff.pc = "idle"
    /\ oneOff' = [IdleOneOff EXCEPT !.pc = "launch", !.cookies = cookies]
    /\ UNCHANGED <<rlVars, hvVars>>

\* lines 252-259 and 687: an await of init rejected; the error is wrapped,
\* handed to handleError and thrown, and the finally block runs
InitFails(f) ==
    /\ oneOff' = Finally([f EXCEPT !.settled = "rejected",
                                     !.error = "NavigationError"])
    /\ onErrorLog' = handleError(DirectCall, "NavigationError", Null)
    /\ UNCHANGED <<rlVars, onError, calls>>

\* line 251 / 685: init returns and harvester.harvest is called
InitReturns(f, url, o) ==
    /\ oneOff' = [f EXCEPT !.pc = "harvest"]
    /\ Harvest(DirectCall, url, o)

\* line 241: chromium.launch resolves
LaunchResolves ==
    /\ oneOff.pc = "launch"
    /\ oneOff' = [oneOff EXCEPT !.pc = "newContext", !.browser = "open"]
    /\ UNCHANGED <<rlVars, hvVars>>

LaunchRejects ==
    /\ oneOff.pc = "launch"
    /\ InitFails(oneOff)

\* line 244: browser.newContext resolves
NewContextResolves(url, o) ==
    /\ oneOff.pc = "newContext"
    /\ LET f == [oneOff EXCEPT !.context = "open"] IN
       IF oneOff.cookies
       THEN oneOff' = [f EXCEPT !.pc = "addCookies"] /\ UNCHANGED <<rlVars, hvVars>>
       ELSE InitReturns(f, url, o)

NewContextRejects ==
    /\ oneOff.pc = "newContext"
    /\ InitFails(oneOff)

\* line 248: context.addCookies resolves
AddCookiesResolves(url, o) ==
    /\ oneOff.pc = "addCookies"
    /\ InitReturns(oneOff, url, o)

AddCookiesRejects ==
    /\ oneOff.pc = "addCookies"
    /\ InitFails(oneOff)

\* lines 685-687: harvester.harvest has settled and the finally block runs
HarvestSettles ==
    /\ oneOff.pc = "harvest"
    /\ calls[DirectCall].pc \in {"resolved", "rejected"}
    /\ oneOff' = Finally(
          IF calls[DirectCall].pc = "resolved"
          THEN [oneOff EXCEPT !.settled = "returned"]
          ELSE [oneOff EXCEPT !.settled = "rejected", !.error = calls[DirectCall].thrown])
    /\ UNCHANGED <<rlVars, hvVars>>

\* line 305: context.close() resolves
ContextCloseResolves ==
    /\ oneOff.pc = "closeContext"
    /\ LET f == [oneOff EXCEPT !.context = "closed"]
       IN oneOff' = [f EXCEPT !.pc = close(f)]
    /\ UNCHANGED <<rlVars, hvVars>>

\* line 306: browser.close() resolves
BrowserCloseResolves ==
    /\ oneOff.pc = "closeBrowser"
    /\ oneOff' = [oneOff EXCEPT !.browser = "closed", !.pc = "exited"]
    /\ UNCHANGED <<rlVars, hvVars>>

\* line 305 or 306 rejects: close, and with it the function, rejects
CloseRejects ==
    /\ oneOff.pc \in {"closeContext", "closeBrowser"}
    /\ oneOff' = [oneOff EXCEPT !.pc = "exited", !.closeFailed = TRUE,
                                !.settled = "rejected", !.error = "Error"]
    /\ UNCHANGED <<rlVars, hvVars>>

OneOffFresh == oneOff = IdleOneOff

(***************************************************************************)
(* One attempt: _performHarvest (harvester.js 388-467) and the body of the *)
(* loop of harvestCustom (495-538)                                         *)
(***************************************************************************)
\* the error of the engine (Playwright) that a rejected await carries
EngineError == [name |-> "Error", url |-> Null, selector |-> Null,
                operation |-> Null, cause |-> Null]

NoError == [name |-> Null, url |-> Null, selector |-> Null,
            operation |-> Null, cause |-> Null]

\* lines 14-43: new NavigationError / TimeoutError / ExtractionError(message,
\* context) around the error of the engine
NavigationError(url) ==
    [name |-> "NavigationError", url |-> url, selector |-> Null,
     operation |-> "navigation", cause |-> "Error"]
TimeoutError(url, selector) ==
    [name |-> "TimeoutError", url |-> url, selector |-> selector,
     operation |-> "navigation", cause |-> "Error"]
ExtractionError(url, selector) ==
    [name |-> "ExtractionError", url |-> url, selector |-> selector,
     operation |-> "extraction", cause |-> "Error"]

\* lines 593-597: what screenshot() wraps every failure of its try block in
ScreenshotError(url) ==
    [NavigationError(url) EXCEPT !.operation = "screenshot"]

IdleAttempt == [pc |-> "idle", kind |-> Null, url |-> Null, screenshot |-> FALSE,
                waitFor |-> FALSE, phases |-> <<>>, failed |-> Null,
                warned |-> FALSE, pages |-> 0, closeCalls |-> 0,
                pending |-> NoError, thrown |-> NoError, returned |-> FALSE]

\* the selector harvest is called with
AttemptSelector == ".item"

\* line 395 / 495 / 574: the attempt begins with context.newPage(); option
\* is the optional step of the call: the screenshot of harvest and
\* harvestCustom, the selector to wait for of screenshot()
AttemptBegins(kind, url, option) ==
    /\ attemptRun.pc = "idle"
    /\ attemptRun' = [IdleAttempt EXCEPT !.pc = "newPage", !.kind = kind,
           !.url = url,
           !.screenshot = IF kind = "screenshot" THEN TRUE ELSE option,
           !.waitFor = CASE kind = "harvest" -> TRUE
                         [] kind = "screenshot" -> option
                         [] OTHER -> FALSE]

\* lines 436-463 / 531: the error the failed evaluation leaves the attempt
\* with: _performHarvest wraps it, harvestCustom lets it through
EvaluateError(f) ==
    IF f.kind = "harvest" THEN ExtractionError(f.url, AttemptSelector)
    ELSE EngineError

\* the phase after the wait for the selector, after navigation, and after the
\* screenshot
AfterWait(f) == IF f.screenshot THEN "screenshot" ELSE "evaluate"
\* an attempt that does not wait for the selector
AfterGoto_SkipsWait(f) == AfterWait(f)
AfterGoto(f) == IF f.waitFor THEN "waitForSelector" ELSE AfterWait(f)
AfterScreenshot(f) == IF f.kind = "screenshot" THEN "close" ELSE "evaluate"

\* a failure that leaves the attempt at once, the page still open
AfterFailure_Leaves(f) == "thrown"

\* lines 464-466 / 536-537 / 600-602: a failure inside the try goes through
\* the finally (the catch) that closes the page
AfterFailure(f) == "close"

\* the await of the phase resolves
PhaseResolves ==
    /\ attemptRun.pc \in {"newPage", "goto", "waitForSelector", "screenshot", "evaluate"}
    /\ LET f == [attemptRun EXCEPT !.phases = Append(attemptRun.phases, attemptRun.pc)] IN
       attemptRun' =
         CASE attemptRun.pc = "newPage" -> [f EXCEPT !.pc = "goto", !.pages = f.pages + 1]
           [] attemptRun.pc = "goto" -> [f EXCEPT !.pc = AfterGoto(f)]
           [] attemptRun.pc = "waitForSelector" -> [f EXCEPT !.pc = AfterWait(f)]
           [] attemptRun.pc = "screenshot" -> [f EXCEPT !.pc = AfterScreenshot(f)]
           [] attemptRun.pc = "evaluate" -> [f EXCEPT !.pc = "close"]

\* the await of the phase rejects: newPage is outside every try; goto, the
\* wait and the evaluation throw through the finally / catch that closes the
\* page; a failed screenshot of harvest and harvestCustom is logged and the
\* attempt goes on; screenshot() wraps every failure alike
PhaseRejects ==
    /\ attemptRun.pc \in {"newPage", "goto", "waitForSelector", "screenshot", "evaluate"}
    /\ LET f == [attemptRun EXCEPT !.phases = Append(attemptRun.phases, attemptRun.pc)]
           g == [f EXCEPT !.failed = attemptRun.pc, !.pc = AfterFailure(f),
                          !.thrown = IF AfterFailure(f) = "thrown"
                                     THEN EngineError ELSE NoError]
       IN attemptRun' =
         CASE attemptRun.pc = "newPage" ->
                [f EXCEPT !.failed = "newPage", !.pc = "thrown", !.thrown = EngineError]
           [] f.kind = "screenshot" -> [g EXCEPT !.pending = ScreenshotError(f.url)]
           [] attemptRun.pc = "goto" -> [g EXCEPT !.pending = NavigationError(f.url)]
           [] attemptRun.pc = "waitForSelector" ->
                [g EXCEPT !.pending = TimeoutError(f.url, AttemptSelector)]
           [] attemptRun.pc = "screenshot" ->
                [f EXCEPT !.pc = "evaluate", !.warned = TRUE]
           [] attemptRun.pc = "evaluate" -> [g EXCEPT !.pending = EvaluateError(f)]

\* line 465 / 534, 537 / 601: page.close() resolves, and the attempt returns
\* or throws
PageCloses ==
    /\ attemptRun.pc = "close"
    /\ LET f == [attemptRun EXCEPT !.closeCalls = attemptRun.closeCalls + 1] IN
       attemptRun' = IF f.pending = NoError
                     THEN [f EXCEPT !.pc = "returned", !.returned = TRUE,
                                    !.pages = f.pages - 1]
                     ELSE [f EXCEPT !.pc = "thrown", !.thrown = f.pending,
                                    !.pages = f.pages - 1]

\* page.close() rejects: its error takes the place of what was pending; the
\* close of line 534 of harvestCustom is inside the try, and its failure is
\* caught by the catch that closes the page again
PageCloseRejects ==
    /\ attemptRun.pc = "close"
    /\ LET f == [attemptRun EXCEPT !.closeCalls = attemptRun.closeCalls + 1,
                                   !.failed = "close"] IN
       attemptRun' = IF f.kind = "harvestCustom" /\ attemptRun.failed = Null
                     THEN [f EXCEPT !.pending = EngineError]
                     ELSE [f EXCEPT !.pc = "thrown", !.thrown = EngineError]

\* the next attempt, or the next call
AttemptEnds ==
    /\ attemptRun.pc \in {"returned", "thrown"}
    /\ attemptRun' = IdleAttempt

AttemptFresh == attemptRun = IdleAttempt

(***************************************************************************)
(* login and fillLoginForm (auth.js)                                       *)
(***************************************************************************)
\* the awaits of login, those of fillLoginForm in their place, in the order
\* of the text: page.goto; waitForSelector and fill of the username field,
\* of the password field; waitForSelector of the submit button;
\* Promise.all([waitForNavigation, click]); waitForSelector(successSelector);
\* sessionManager.saveSession; saveCookies
LoginOrder ==
    <<"goto", "usernameField", "usernameFill", "passwordField", "passwordFill",
      "submitField", "submit", "successSelector", "saveSession", "saveCookies">>

\* the waitForSelector calls whose result fillLoginForm tests for null
FieldSteps == {"usernameField", "passwordField", "submitField"}

\* options.sessionId: left out, or a text, '' among them
NoSessionId == [given |-> FALSE, id |-> <<>>]
SessionId(id) == [given |-> TRUE, id |-> id]
LoginSessionIds == {NoSessionId, SessionId(<<>>), SessionId(<<"alice">>)}

LoginOptions ==
    [sessionManager : {Null} \cup Managers,
     sessionId : LoginSessionIds,
     cookiesPath : BOOLEAN,
     successSelector : BOOLEAN]

IdleLogin == [pc |-> "idle",
              options |-> [sessionManager |-> Null, sessionId |-> NoSessionId,
                           cookiesPath |-> FALSE, successSelector |-> FALSE],
              ctx |-> NoContext, done |-> <<>>, failed |-> Null, error |-> Null,
              cookieFile |-> FALSE]

\* the conditions of lines 323, 328 and 333: whether login makes the step
StepWanted(o, step) ==
    CASE step = "successSelector" -> o.successSelector
      [] step = "saveSession" ->
             o.sessionManager # Null /\ o.sessionId.given /\ o.sessionId.id # <<>>
      [] step = "saveCookies" -> o.cookiesPath
      [] OTHER -> TRUE

\* the position of a step in the text
RECURSIVE IndexOf(_, _)
IndexOf(step, k) ==
    IF k > Len(LoginOrder) THEN k
    ELSE IF LoginOrder[k] = step THEN k ELSE IndexOf(step, k + 1)

\* the next await of login past position k, or its return
RECURSIVE StepFrom(_, _)
StepFrom(o, k) ==
    IF k > Len(LoginOrder) THEN "resolved"
    ELSE IF StepWanted(o, LoginOrder[k]) THEN LoginOrder[k]
    ELSE StepFrom(o, k + 1)

\* lines 316-336: where login goes when the await of step resolves
AfterStep(o, step) == StepFrom(o, IndexOf(step, 1) + 1)

\* line 329: saveSession is entered with the id and the page's context
LoginSaves(f) ==
    SaveSession(f.options.sessionManager, f.options.sessionId.id, f.ctx)

\* lines 307-317: login is called, and awaits page.goto
Login(o, ctx) ==
    /\ loginRun.pc = "idle"
    /\ loginRun' = [IdleLogin EXCEPT !.pc = "goto", !.options = o, !.ctx = ctx]
    /\ UNCHANGED smVars

\* the await of the step resolves: login goes to its next await, entering
\* saveSession (lines 153-165) when that is the next; saveSession resolved
\* has written the record (165-170), saveCookies resolved has written the
\* cookie file (line 91)
LoginStepResolves ==
    /\ loginRun.pc \in {LoginOrder[k] : k \in DOMAIN LoginOrder}
    /\ LET f == loginRun
           next == AfterStep(f.options, f.pc)
       IN /\ loginRun' = [f EXCEPT !.pc = next, !.done = Append(f.done, f.pc),
                             !.cookieFile = f.cookieFile \/ f.pc = "saveCookies"]
          /\ IF f.pc = "saveSession" THEN SaveCompletes(f.options.sessionManager)
             ELSE IF next = "saveSession" THEN LoginSaves(f)
             ELSE UNCHANGED smVars

\* a login that goes on to its next step after a failed one
AfterReject_GoesOn(f, error) ==
    [f EXCEPT !.pc = IF AfterStep(f.options, f.pc) = "saveSession"
                     THEN "rejected" ELSE AfterStep(f.options, f.pc),
              !.failed = f.pc, !.error = error]

\* no await of login is inside a try: the error leaves login
AfterReject(f, error) ==
    [f EXCEPT !.pc = "rejected", !.failed = f.pc, !.error = error]

\* the await of the step rejects, or a waitForSelector of fillLoginForm
\* resolves with null and lines 44-46, 51-53, 58-60 throw
LoginStepRejects(how) ==
    /\ loginRun.pc \in {LoginOrder[k] : k \in DOMAIN LoginOrder}
    /\ how = "null" => loginRun.pc \in FieldSteps
    /\ loginRun' = AfterReject(loginRun,
                       IF how = "null" THEN "Error" ELSE "EngineError")
    /\ IF loginRun.pc = "saveSession" THEN SaveFails(loginRun.options.sessionManager)
       ELSE UNCHANGED smVars

\* before login is called
LoginFresh == loginRun = IdleLogin

(***************************************************************************)
(* Specifications                                                          *)
(***************************************************************************)
\* the rate limiter under concurrent callers
InitRL ==
    /\ rlConfig \in RLConfigs /\ RLFresh
    /\ onError = FALSE /\ HarvesterFresh /\ BatchFresh /\ StoreFresh
    /\ ExtractionFresh /\ BackoffFresh /\ OneOffFresh /\ AttemptFresh /\ LoginFresh

NextRL ==
    \/ \E c \in Callers, url \in Urls :
           WaitIfNeeded(c, url) /\ UNCHANGED <<hvVars, batch, smVars, extraction, backoffCall, oneOff, attemptRun, loginRun>>
    \/ \E c \in Callers : GlobalWake(c) /\ UNCHANGED <<hvVars, batch, smVars, extraction, backoffCall, oneOff, attemptRun, loginRun>>
    \/ \E c \in Callers : DomainWake(c) /\ UNCHANGED <<hvVars, batch, smVars, extraction, backoffCall, oneOff, attemptRun, loginRun>>
    \/ Tick /\ UNCHANGED <<hvVars, batch, smVars, extraction, backoffCall, oneOff, attemptRun, loginRun>>

SpecRL == InitRL /\ [][NextRL]_vars

\* the rate limiter on an event loop: time passes, and a timer that is due
\* fires and resumes the caller that awaits it
FairRL ==
    /\ WF_vars(Tick /\ UNCHANGED <<hvVars, batch, smVars, extraction,
                                   backoffCall, oneOff, attemptRun, loginRun>>)
    /\ \A c \in Callers :
           /\ WF_vars(GlobalWake(c) /\ UNCHANGED <<hvVars, batch, smVars, extraction,
                                                   backoffCall, oneOff, attemptRun, loginRun>>)
           /\ WF_vars(DomainWake(c) /\ UNCHANGED <<hvVars, batch, smVars, extraction,
                                                   backoffCall, oneOff, attemptRun, loginRun>>)

SpecRLFair == InitRL /\ [][NextRL]_vars /\ FairRL

\* one harvest or harvestCustom call on a harvester without rate limit
InitHarvest ==
    /\ rlConfig = NoRateLimit /\ RLFresh
    /\ onError \in BOOLEAN /\ HarvesterFresh /\ BatchFresh /\ StoreFresh
    /\ ExtractionFresh /\ BackoffFresh /\ OneOffFresh /\ AttemptFresh /\ LoginFresh

NextHarvest ==
    \/ \E url \in Urls, o \in CallOptions :
           Harvest(DirectCall, url, o) /\ UNCHANGED <<batch, smVars, extraction, backoffCall, oneOff, attemptRun, loginRun>>
    \/ \E url \in Urls, o \in CallOptions :
           HarvestCustom(DirectCall, url, o) /\ UNCHANGED <<batch, smVars, extraction, backoffCall, oneOff, attemptRun, loginRun>>
    \/ \E c \in CallIds : PageCreated(c) /\ UNCHANGED <<batch, smVars, extraction, backoffCall, oneOff, attemptRun, loginRun>>
    \/ \E c \in CallIds : PageCreateFails(c) /\ UNCHANGED <<batch, smVars, extraction, backoffCall, oneOff, attemptRun, loginRun>>
    \/ \E c \in CallIds : BackoffElapses(c) /\ UNCHANGED <<batch, smVars, extraction, backoffCall, oneOff, attemptRun, loginRun>>
    \/ \E c \in CallIds : AttemptSucceeds(c) /\ UNCHANGED <<batch, smVars, extraction, backoffCall, oneOff, attemptRun, loginRun>>
    \/ \E c \in CallIds, e \in ErrorNames : AttemptFails(c, e) /\ UNCHANGED <<batch, smVars, extraction, backoffCall, oneOff, attemptRun, loginRun>>

SpecHarvest == InitHarvest /\ [][NextHarvest]_vars

\* options.retries as the caller may give it: a count, or a number below 0
RetryOptions ==
    [retries : (0 - 1)..MaxRetries,
     backoff : {"exponential"},
     maxBackoff : {DefaultMaxBackoff},
     retryOn : {NoList, List({"TimeoutError"})}]

\* one harvest or harvestCustom call with any retries
NextRetries ==
    \/ \E url \in Urls, o \in RetryOptions :
           Harvest(DirectCall, url, o) /\ UNCHANGED <<batch, smVars, extraction, backoffCall, oneOff, attemptRun, loginRun>>
    \/ \E url \in Urls, o \in RetryOptions :
           HarvestCustom(DirectCall, url, o) /\ UNCHANGED <<batch, smVars, extraction, backoffCall, oneOff, attemptRun, loginRun>>
    \/ PageCreated(DirectCall) /\ UNCHANGED <<batch, smVars, extraction, backoffCall, oneOff, attemptRun, loginRun>>
    \/ PageCreateFails(DirectCall) /\ UNCHANGED <<batch, smVars, extraction, backoffCall, oneOff, attemptRun, loginRun>>
    \/ BackoffElapses(DirectCall) /\ UNCHANGED <<batch, smVars, extraction, backoffCall, oneOff, attemptRun, loginRun>>
    \/ AttemptSucceeds(DirectCall) /\ UNCHANGED <<batch, smVars, extraction, backoffCall, oneOff, attemptRun, loginRun>>
    \/ \E e \in ErrorNames : AttemptFails(DirectCall, e) /\ UNCHANGED <<batch, smVars, extraction, backoffCall, oneOff, attemptRun, loginRun>>

SpecRetries == InitHarvest /\ [][NextRetries]_vars

\* one harvestBatch call on a harvester without rate limit
InitBatch ==
    /\ rlConfig = NoRateLimit /\ RLFresh
    /\ onError = FALSE /\ HarvesterFresh /\ BatchFresh /\ StoreFresh
    /\ ExtractionFresh /\ BackoffFresh /\ OneOffFresh /\ AttemptFresh /\ LoginFresh

NextBatch ==
    \/ \E n \in 0..MaxJobs, o \in JobOptions,
          k \in 0..MaxConcurrency, p \in ProgressModes :
           HarvestBatch(Configs(n, o), k, p) /\ UNCHANGED <<smVars, extraction, backoffCall, oneOff, attemptRun, loginRun>>
    \/ \E c \in CallIds : BackoffElapses(c) /\ UNCHANGED <<batch, smVars, extraction, backoffCall, oneOff, attemptRun, loginRun>>
    \/ \E c \in CallIds : AttemptSucceeds(c) /\ UNCHANGED <<batch, smVars, extraction, backoffCall, oneOff, attemptRun, loginRun>>
    \/ \E c \in CallIds, e \in ErrorNames : AttemptFails(c, e) /\ UNCHANGED <<batch, smVars, extraction, backoffCall, oneOff, attemptRun, loginRun>>
    \/ \E j \in Jobs : JobSettles(j) /\ UNCHANGED <<smVars, extraction, backoffCall, oneOff, attemptRun, loginRun>>
    \/ ChunkSettles /\ UNCHANGED <<smVars, extraction, backoffCall, oneOff, attemptRun, loginRun>>

SpecBatch == InitBatch /\ [][NextBatch]_vars

\* harvestBatch on an event loop where every harvest call settles: a timer
\* that is due fires, an attempt ends, and a promise that has settled resumes
\* what awaits it
FairBatch ==
    /\ \A c \in CallIds :
           /\ WF_vars(BackoffElapses(c) /\ UNCHANGED <<batch, smVars, extraction, backoffCall, oneOff, attemptRun, loginRun>>)
           /\ WF_vars((AttemptSucceeds(c) \/ \E e \in ErrorNames : AttemptFails(c, e))
                      /\ UNCHANGED <<batch, smVars, extraction, backoffCall, oneOff, attemptRun, loginRun>>)
    /\ \A j \in Jobs : WF_vars(JobSettles(j) /\ UNCHANGED <<smVars, extraction, backoffCall, oneOff, attemptRun, loginRun>>)
    /\ WF_vars(ChunkSettles /\ UNCHANGED <<smVars, extraction, backoffCall, oneOff, attemptRun, loginRun>>)

SpecBatchFair == InitBatch /\ [][NextBatch]_vars /\ FairBatch

\* two session managers and other writers on one storageDir
InitSession ==
    /\ rlConfig = NoRateLimit /\ RLFresh
    /\ onError = FALSE /\ HarvesterFresh /\ BatchFresh /\ StoreFresh
    /\ ExtractionFresh /\ BackoffFresh /\ OneOffFresh /\ AttemptFresh /\ LoginFresh

NextSession ==
    \/ \E m \in Managers, id \in SessionIds, ctx \in Contexts :
           SaveSession(m, id, ctx) /\ UNCHANGED <<rlVars, hvVars, batch, extraction, backoffCall, oneOff, attemptRun, loginRun>>
    \/ \E m \in Managers : SaveCompletes(m) /\ UNCHANGED <<rlVars, hvVars, batch, extraction, backoffCall, oneOff, attemptRun, loginRun>>
    \/ \E m \in Managers : SaveFails(m) /\ UNCHANGED <<rlVars, hvVars, batch, extraction, backoffCall, oneOff, attemptRun, loginRun>>
    \/ \E m \in Managers, id \in SessionIds :
           LoadSession(m, id) /\ UNCHANGED <<rlVars, hvVars, batch, extraction, backoffCall, oneOff, attemptRun, loginRun>>
    \/ \E m \in Managers : LoadCompletes(m) /\ UNCHANGED <<rlVars, hvVars, batch, extraction, backoffCall, oneOff, attemptRun, loginRun>>
    \/ \E m \in Managers, id \in SessionIds :
           HasSession(m, id) /\ UNCHANGED <<rlVars, hvVars, batch, extraction, backoffCall, oneOff, attemptRun, loginRun>>
    \/ \E m \in Managers, id \in SessionIds :
           DeleteSession(m, id) /\ UNCHANGED <<rlVars, hvVars, batch, extraction, backoffCall, oneOff, attemptRun, loginRun>>
    \/ \E id \in SessionIds, ctx \in Contexts :
           ExternalWrite(id, ctx) /\ UNCHANGED <<rlVars, hvVars, batch, extraction, backoffCall, oneOff, attemptRun, loginRun>>
    \/ \E id \in SessionIds : ExternalRemove(id) /\ UNCHANGED <<rlVars, hvVars, batch, extraction, backoffCall, oneOff, attemptRun, loginRun>>
    \/ \E m \in Managers : ListSessions(m) /\ UNCHANGED <<rlVars, hvVars, batch, extraction, backoffCall, oneOff, attemptRun, loginRun>>

SpecSession == InitSession /\ [][NextSession]_vars

\* the extraction phase, over the pages and the extractors of the model
InitExtract ==
    /\ rlConfig = NoRateLimit /\ RLFresh
    /\ onError = FALSE /\ HarvesterFresh /\ BatchFresh /\ StoreFresh
    /\ ExtractionFresh /\ BackoffFresh /\ OneOffFresh /\ AttemptFresh /\ LoginFresh

NextExtract ==
    \/ \E page \in Pages, extractor \in Extractors :
           /\ Extract("http://a.test/x", page, RootSelector, extractor)
           /\ UNCHANGED <<rlVars, hvVars, batch, smVars, backoffCall, oneOff, attemptRun, loginRun>>
    \/ ExtractResolves /\ UNCHANGED <<rlVars, hvVars, batch, smVars, backoffCall, oneOff, attemptRun, loginRun>>
    \/ ExtractRejects /\ UNCHANGED <<rlVars, hvVars, batch, smVars, backoffCall, oneOff, attemptRun, loginRun>>
    \/ ExtractDone /\ UNCHANGED <<rlVars, hvVars, batch, smVars, backoffCall, oneOff, attemptRun, loginRun>>

SpecExtract == InitExtract /\ [][NextExtract]_vars

\* calculateBackoff over the arguments of the model
InitBackoff ==
    /\ rlConfig = NoRateLimit /\ RLFresh
    /\ onError = FALSE /\ HarvesterFresh /\ BatchFresh /\ StoreFresh
    /\ ExtractionFresh /\ backoffCall \in BackoffCalls /\ OneOffFresh /\ AttemptFresh /\ LoginFresh

NextBackoff ==
    \/ BackoffReturns /\ UNCHANGED <<rlVars, hvVars, batch, smVars, extraction, oneOff, attemptRun, loginRun>>
    \/ \E call \in BackoffCalls :
           BackoffCalled(call) /\ UNCHANGED <<rlVars, hvVars, batch, smVars, extraction, oneOff, attemptRun, loginRun>>

SpecBackoff == InitBackoff /\ [][NextBackoff]_vars

\* harvest called twice on one harvester
InitRepeat ==
    /\ rlConfig = NoRateLimit /\ RLFresh
    /\ onError = FALSE /\ HarvesterFresh /\ BatchFresh /\ StoreFresh
    /\ ExtractionFresh /\ BackoffFresh /\ OneOffFresh /\ AttemptFresh /\ LoginFresh

NextRepeat ==
    \/ \E page \in Pages, extractor \in RepeatedExtractors :
           /\ Extract("http://a.test/x", page, RootSelector, extractor)
           /\ UNCHANGED <<rlVars, hvVars, batch, smVars, backoffCall, oneOff, attemptRun, loginRun>>
    \/ ExtractResolves /\ UNCHANGED <<rlVars, hvVars, batch, smVars, backoffCall, oneOff, attemptRun, loginRun>>
    \/ ExtractRejects /\ UNCHANGED <<rlVars, hvVars, batch, smVars, backoffCall, oneOff, attemptRun, loginRun>>
    \/ \E page \in Pages, extractor \in RepeatedExtractors :
           /\ ExtractAgain("http://a.test/x", page, RootSelector, extractor)
           /\ UNCHANGED <<rlVars, hvVars, batch, smVars, backoffCall, oneOff, attemptRun, loginRun>>

SpecRepeat == InitRepeat /\ [][NextRepeat]_vars

\* the convenience function, called once
InitOneOff ==
    /\ rlConfig = NoRateLimit /\ RLFresh
    /\ onError \in BOOLEAN /\ HarvesterFresh /\ BatchFresh /\ StoreFresh
    /\ ExtractionFresh /\ BackoffFresh /\ OneOffFresh /\ AttemptFresh /\ LoginFresh

NextOneOff ==
    \/ \E cookies \in BOOLEAN :
           OneOffCalled(cookies) /\ UNCHANGED <<batch, smVars, extraction, backoffCall, attemptRun, loginRun>>
    \/ LaunchResolves /\ UNCHANGED <<batch, smVars, extraction, backoffCall, attemptRun, loginRun>>
    \/ LaunchRejects /\ UNCHANGED <<batch, smVars, extraction, backoffCall, attemptRun, loginRun>>
    \/ \E url \in Urls, o \in JobOptions :
           NewContextResolves(url, o) /\ UNCHANGED <<batch, smVars, extraction, backoffCall, attemptRun, loginRun>>
    \/ NewContextRejects /\ UNCHANGED <<batch, smVars, extraction, backoffCall, attemptRun, loginRun>>
    \/ \E url \in Urls, o \in JobOptions :
           AddCookiesResolves(url, o) /\ UNCHANGED <<batch, smVars, extraction, backoffCall, attemptRun, loginRun>>
    \/ AddCookiesRejects /\ UNCHANGED <<batch, smVars, extraction, backoffCall, attemptRun, loginRun>>
    \/ BackoffElapses(DirectCall) /\ UNCHANGED <<batch, smVars, extraction, backoffCall, oneOff, attemptRun, loginRun>>
    \/ AttemptSucceeds(DirectCall) /\ UNCHANGED <<batch, smVars, extraction, backoffCall, oneOff, attemptRun, loginRun>>
    \/ \E e \in ErrorNames :
           AttemptFails(DirectCall, e) /\ UNCHANGED <<batch, smVars, extraction, backoffCall, oneOff, attemptRun, loginRun>>
    \/ HarvestSettles /\ UNCHANGED <<batch, smVars, extraction, backoffCall, attemptRun, loginRun>>
    \/ ContextCloseResolves /\ UNCHANGED <<batch, smVars, extraction, backoffCall, attemptRun, loginRun>>
    \/ BrowserCloseResolves /\ UNCHANGED <<batch, smVars, extraction, backoffCall, attemptRun, loginRun>>
    \/ CloseRejects /\ UNCHANGED <<batch, smVars, extraction, backoffCall, attemptRun, loginRun>>

SpecOneOff == InitOneOff /\ [][NextOneOff]_vars

\* one attempt of harvest or of harvestCustom, phase by phase
InitAttempt ==
    /\ rlConfig = NoRateLimit /\ RLFresh
    /\ onError = FALSE /\ HarvesterFresh /\ BatchFresh /\ StoreFresh
    /\ ExtractionFresh /\ BackoffFresh /\ OneOffFresh /\ AttemptFresh /\ LoginFresh

NextAttempt ==
    \/ \E kind \in {"harvest", "harvestCustom", "screenshot"}, url \in Urls,
          option \in BOOLEAN :
           /\ AttemptBegins(kind, url, option)
           /\ UNCHANGED <<rlVars, hvVars, batch, smVars, extraction, backoffCall, oneOff, loginRun>>
    \/ PhaseResolves /\ UNCHANGED <<rlVars, hvVars, batch, smVars, extraction, backoffCall, oneOff, loginRun>>
    \/ PhaseRejects /\ UNCHANGED <<rlVars, hvVars, batch, smVars, extraction, backoffCall, oneOff, loginRun>>
    \/ PageCloses /\ UNCHANGED <<rlVars, hvVars, batch, smVars, extraction, backoffCall, oneOff, loginRun>>
    \/ PageCloseRejects /\ UNCHANGED <<rlVars, hvVars, batch, smVars, extraction, backoffCall, oneOff, loginRun>>
    \/ AttemptEnds /\ UNCHANGED <<rlVars, hvVars, batch, smVars, extraction, backoffCall, oneOff, loginRun>>

SpecAttempt == InitAttempt /\ [][NextAttempt]_vars

\* harvest, harvestCustom and screenshot calls on a rate-limited harvester
LimitedOptions ==
    {o \in CallOptions : /\ o.retries = MaxRetries
                         /\ o.backoff = "exponential"
                         /\ o.maxBackoff = DefaultMaxBackoff
                         /\ o.retryOn = NoList}

\* the callers that make a call
LimitedCallers == 1..(NumCallers - 1)

\* the time the calls are followed for: the longest window of the limits
LimitedTime == MaxTime - 2

LimitedUrls == {"http://a.test/x", "not a url"}

InitLimited ==
    /\ rlConfig \in {cfg \in RLConfigs : cfg.global.defined \/ cfg.flat = Limit(1, 2)}
    /\ RLFresh
    /\ onError = FALSE /\ HarvesterFresh /\ BatchFresh /\ StoreFresh
    /\ ExtractionFresh /\ BackoffFresh /\ OneOffFresh /\ AttemptFresh /\ LoginFresh

NextLimited ==
    \/ \E c \in LimitedCallers, url \in LimitedUrls, o \in LimitedOptions :
           Harvest(c, url, o) /\ UNCHANGED <<batch, smVars, extraction, backoffCall, oneOff, attemptRun, loginRun>>
    \/ \E c \in LimitedCallers, url \in LimitedUrls, o \in LimitedOptions :
           HarvestCustom(c, url, o) /\ UNCHANGED <<batch, smVars, extraction, backoffCall, oneOff, attemptRun, loginRun>>
    \/ \E c \in LimitedCallers, url \in LimitedUrls : Screenshot(c, url) /\ UNCHANGED <<batch, smVars, extraction, backoffCall, oneOff, attemptRun, loginRun>>
    \/ \E c \in LimitedCallers :
           GlobalWake(c) /\ UNCHANGED <<hvVars, batch, smVars, extraction, backoffCall, oneOff, attemptRun, loginRun>>
    \/ \E c \in LimitedCallers :
           DomainWake(c) /\ UNCHANGED <<hvVars, batch, smVars, extraction, backoffCall, oneOff, attemptRun, loginRun>>
    \/ /\ clock < LimitedTime
       /\ Tick /\ UNCHANGED <<hvVars, batch, smVars, extraction, backoffCall, oneOff, attemptRun, loginRun>>
    \/ \E c \in LimitedCallers : LimiterReturns(c) /\ UNCHANGED <<batch, smVars, extraction, backoffCall, oneOff, attemptRun, loginRun>>
    \/ \E c \in LimitedCallers : PageCreated(c) /\ UNCHANGED <<batch, smVars, extraction, backoffCall, oneOff, attemptRun, loginRun>>
    \/ \E c \in LimitedCallers : PageCreateFails(c) /\ UNCHANGED <<batch, smVars, extraction, backoffCall, oneOff, attemptRun, loginRun>>
    \/ \E c \in LimitedCallers : BackoffElapses(c) /\ UNCHANGED <<batch, smVars, extraction, backoffCall, oneOff, attemptRun, loginRun>>
    \/ \E c \in LimitedCallers : AttemptSucceeds(c) /\ UNCHANGED <<batch, smVars, extraction, backoffCall, oneOff, attemptRun, loginRun>>
    \/ \E c \in LimitedCallers, e \in ErrorNames :
           /\ calls[c].kind = "screenshot" => e = "NavigationError"
           /\ AttemptFails(c, e) /\ UNCHANGED <<batch, smVars, extraction, backoffCall, oneOff, attemptRun, loginRun>>

SpecLimited == InitLimited /\ [][NextLimited]_vars

\* one login call, on a store that is not there yet
InitLogin ==
    /\ rlConfig = NoRateLimit /\ RLFresh
    /\ onError = FALSE /\ HarvesterFresh /\ BatchFresh /\ StoreFresh
    /\ ExtractionFresh /\ BackoffFresh /\ OneOffFresh /\ AttemptFresh /\ LoginFresh

NextLogin ==
    \/ \E o \in LoginOptions, ctx \in Contexts : Login(o, ctx) /\ UNCHANGED <<rlVars, hvVars, batch, extraction, backoffCall, oneOff, attemptRun>>
    \/ LoginStepResolves /\ UNCHANGED <<rlVars, hvVars, batch, extraction, backoffCall, oneOff, attemptRun>>
    \/ \E how \in {"rejects", "null"} : LoginStepRejects(how) /\ UNCHANGED <<rlVars, hvVars, batch, extraction, backoffCall, oneOff, attemptRun>>

SpecLogin == InitLogin /\ [][NextLogin]_vars

(***************************************************************************)
(* C1: with quota Q per window W, no window of length W holds more than Q  *)
(* granted acquisitions (calls that recorded their timestamp and returned),*)
(* in the global scope and in each domain of the per-domain scope, under   *)
(* every interleaving of concurrent waitIfNeeded calls.                    *)
(***************************************************************************)
\* the returned calls whose global timestamp lies in the window (t - W, t]
GlobalGrantsIn(t) ==
    {i \in DOMAIN granted :
        granted[i].gts > t - globalLimit.per /\ granted[i].gts <= t}

\* the returned calls for domain d whose domain timestamp lies in (t - W, t]
DomainGrantsIn(d, t) ==
    {i \in DOMAIN granted :
        /\ granted[i].domain = d
        /\ granted[i].dts > t - perDomainLimit.per /\ granted[i].dts <= t}

C1_QuotaRespected ==
    /\ globalLimit.defined =>
         \A t \in 0..MaxTime : Cardinality(GlobalGrantsIn(t)) <= globalLimit.requests
    /\ perDomainLimit.defined =>
         \A d \in Domains, t \in 0..MaxTime :
             Cardinality(DomainGrantsIn(d, t)) <= perDomainLimit.requests

(***************************************************************************)
(* C4: with retries = R, after attempt i fails attempt i+1 is made iff     *)
(* i < R and the error is retryable, after a sleep of                      *)
(* calculateBackoff(i, backoff, maxBackoff); otherwise the call rejects.   *)
(* So a call makes at most R+1 attempts, gives up only when the attempts   *)
(* are exhausted or the error is not retryable, and returns the result of  *)
(* its first successful attempt.                                           *)
(***************************************************************************)
\* the delays slept so far are backoff(0), backoff(1), ...
BackoffSchedule(call) ==
    \A j \in 1..Len(call.slept) :
        call.slept[j] = calculateBackoff(j - 1, call.options.backoff,
                                         call.options.maxBackoff)

C4_RetryPolicy ==
    \A c \in CallIds :
        LET call == calls[c] IN
        /\ call.attempts <= call.options.retries + 1
        /\ BackoffSchedule(call)
        /\ call.pc \in {"running", "resolved"} => Len(call.slept) = call.attempts - 1
        /\ call.pc = "resolved" => call.result = DataOf(call.url)
        /\ call.pc = "rejected" =>
              \/ call.attempts = call.options.retries + 1
              \/ ~shouldRetry(call.thrown, call.options.retryOn)

(***************************************************************************)
(* C2: harvestBatch resolves to exactly configs.length outcomes, and       *)
(* outcomes[i] is the outcome of harvesting configs[i], whatever order the *)
(* jobs of a chunk settle in.                                              *)
(***************************************************************************)
C2_OutcomesInOrder ==
    batch.pc = "resolved" =>
        /\ Len(batch.results) = Len(batch.configs)
        /\ \A i \in 1..Len(batch.configs) :
              /\ batch.results[i].url = batch.configs[i].url
              /\ batch.results[i].success = (calls[i].pc = "resolved")

\* 3 jobs at concurrency 2: two chunks; in the first chunk the second job
\* settled before the first, after a retry, and failed; the others succeeded
C2_Witness ==
    /\ batch.pc = "resolved"
    /\ Len(batch.configs) = 3 /\ batch.concurrency = 2
    /\ batch.settled = <<2, 1, 3>>
    /\ ~batch.results[2].success /\ calls[2].attempts = 2
    /\ \A i \in {1, 3} : batch.results[i].success

C5_AllowList ==
    /\ \A e \in ErrorNames : shouldRetry(e, NoList)
    /\ \A e \in ErrorNames, S \in SUBSET ErrorNames :
          shouldRetry(e, List(S)) <=> e \in S
    /\ \A c \in CallIds :
          LET call == calls[c] IN
          (/\ call.lastError # Null
           /\ call.options.retryOn.isList
           /\ call.lastError \notin call.options.retryOn.names)
          => /\ call.pc = "rejected"
             /\ call.thrown = call.lastError
             /\ Len(call.slept) = call.attempts - 1

\* a call rejected on a failure outside its allow-list with retries left
C5_Witness ==
    \E c \in CallIds :
        /\ calls[c].pc = "rejected"
        /\ calls[c].options.retryOn = List({"TimeoutError"})
        /\ calls[c].thrown = "NavigationError"
        /\ calls[c].attempts = 2
        /\ calls[c].options.retries = 2

(***************************************************************************)
(* C6: when harvest or harvestCustom gives up, the onError observer is     *)
(* invoked exactly once for that call, with the error the call rejects     *)
(* with and a context holding the url; it is not invoked for a failure     *)
(* that is retried, nor when the call succeeds.                            *)
(***************************************************************************)
ObserverCalls(c) == {i \in DOMAIN onErrorLog : onErrorLog[i].call = c}

C6_ObserverOnGiveUp ==
    onError =>
        \A c \in CallIds :
            IF calls[c].pc = "rejected"
            THEN /\ Cardinality(ObserverCalls(c)) = 1
                 /\ \A i \in ObserverCalls(c) :
                       /\ onErrorLog[i].error = calls[c].thrown
                       /\ onErrorLog[i].url = calls[c].url
            ELSE ObserverCalls(c) = {}

(***************************************************************************)
(* C7: hasSession(id) returns true exactly when a durable record of id     *)
(* exists in storageDir at the time of the call, also for a record this    *)
(* instance saved and another instance or another writer removed.          *)
(***************************************************************************)
C7_HasSessionCorroborated ==
    lastCall.op = "has" => (lastCall.value <=> lastCall.existed)

C9_DeletedStaysGone ==
    /\ \A m \in Managers, id \in SessionIds :
          deleted[m][id] => (~hasSession(m, id) /\ ~loadFinds(m, id))
    /\ lastCall.op = "delete" => (lastCall.value <=> lastCall.existed)

(***************************************************************************)
(* C10: loadSession(id) throws "Session not found" exactly when no durable *)
(* record of id exists at the time of the call, and then makes no context  *)
(* and changes neither the index nor the storage.                          *)
(***************************************************************************)
C10_NotFoundIffNoRecord ==
    [][lastCall'.op = "load" =>
          /\ (lastCall'.error = "Session not found") <=> ~lastCall'.existed
          /\ lastCall'.error = "Session not found" =>
                /\ lastCall'.ctx = NoContext
                /\ UNCHANGED <<dirExists, files, sessions, pending>>]_vars

\* the load of an id the manager saved and still has in its index, after
\* the record was removed
C10_Witness ==
    /\ lastCall.op = "load" /\ lastCall.error = "Session not found"
    /\ sessions[lastCall.manager][lastCall.id] # NoPath

(***************************************************************************)
(* C11: a text, attr or html descriptor with an explicit default d yields  *)
(* exactly d on every root under which its selector matches nothing, and   *)
(* on every root where the element is found but lacks the attribute.       *)
(***************************************************************************)
\* the roots the extraction in progress runs on
Roots == querySelectorAll(extraction.page, 0, extraction.selector)

\* the descriptor finds nothing to read under the root
Misses(page, root, desc) ==
    LET target == IF Truthy(Get(desc, "selector"))
                  THEN querySelector(page, root, Get(desc, "selector"))
                  ELSE root
    IN \/ target = NoElement
       \/ /\ Get(desc, "__dsl") = Str("attr")
          /\ getAttribute(page, target, Get(desc, "attribute")) = JsNull

C11_DefaultOnMiss ==
    (extraction.pc = "done" /\ extraction.outcome.ok
        /\ extraction.extractor.t = "object") =>
    \A k \in DOMAIN Roots, i \in DOMAIN extraction.extractor.l :
        LET desc == extraction.extractor.l[i].l[1]
            d == Get(desc, "default")
        IN (/\ isDSL(desc)
            /\ Get(desc, "__dsl") \in {Str("text"), Str("attr"), Str("html")}
            /\ d # JsNull
            /\ Misses(extraction.page, Roots[k], desc))
           => Get(extraction.outcome.records.l[k], extraction.extractor.l[i].s) = d

(***************************************************************************)
(* C12: through harvest, a field array(selector, item) of a record is the  *)
(* list, one entry per match under the root and in document order, of the  *)
(* item extractor applied to the match, be the item extractor a            *)
(* descriptor, a nested schema or a callback.                              *)
(***************************************************************************)
\* the item extractor applied to a match
ItemOf(page, el, item) ==
    IF isDSL(item) THEN executeDSLExtraction(page, el, item)
    ELSE IF item.t = "function" THEN Apply(page, item, el)
    ELSE executeDSLObject(page, el, item)

C12_ArrayAppliesItem ==
    (extraction.pc = "done" /\ extraction.outcome.ok
        /\ extraction.extractor.t = "object") =>
    \A k \in DOMAIN Roots, i \in DOMAIN extraction.extractor.l :
        LET desc == extraction.extractor.l[i].l[1]
            matches == querySelectorAll(extraction.page, Roots[k],
                                        Get(desc, "selector"))
            list == Get(extraction.outcome.records.l[k],
                        extraction.extractor.l[i].s)
        IN (isDSL(desc) /\ Get(desc, "__dsl") = Str("array")) =>
              /\ list.t = "array"
              /\ Len(list.l) = Len(matches)
              /\ \A j \in DOMAIN matches :
                    list.l[j] = ItemOf(extraction.page, matches[j],
                                       Get(desc, "extractor"))

(***************************************************************************)
(* C13: a schema whose fields are descriptors and callbacks, at least one  *)
(* of each, yields through harvest for each root the record a callback     *)
(* computing the same fields on the root returns: each descriptor field    *)
(* holds the descriptor's value, each callback field the callback's.       *)
(***************************************************************************)
ScalarKinds == {Str("text"), Str("attr"), Str("html"), Str("exists"), Str("count")}

\* descriptor fields and callback fields, at least one of each
MixesFields(schema) ==
    /\ schema.t = "object"
    /\ \A i \in DOMAIN schema.l :
          \/ schema.l[i].l[1].t = "function"
          \/ isDSL(schema.l[i].l[1]) /\ Get(schema.l[i].l[1], "__dsl") \in ScalarKinds
    /\ \E i \in DOMAIN schema.l : schema.l[i].l[1].t = "function"
    /\ \E i \in DOMAIN schema.l : isDSL(schema.l[i].l[1])

\* what the callback computing the fields of the schema returns on each root
Reference(page, roots, schema) ==
    [k \in DOMAIN roots |-> executeDSLObject(page, roots[k], schema)]

C13_MixedAsCallback ==
    (extraction.pc = "done" /\ MixesFields(extraction.extractor)) =>
        LET ref == Reference(extraction.page, Roots, extraction.extractor)
        IN IF Threw(ref) THEN ~extraction.outcome.ok
           ELSE /\ extraction.outcome.ok
                /\ extraction.outcome.records = Arr(ref)

(***************************************************************************)
(* C14: when the code sent to the page throws on any matched element, the  *)
(* attempt fails with one ExtractionError carrying the url and the root    *)
(* selector, and returns no records, not even those of the elements that   *)
(* did not throw.                                                          *)
(***************************************************************************)
\* the procedure in the page throws on the k-th root
ThrowsOn(k) ==
    LET fn == NewFunction(extraction.code)
    IN fn.t # "throw" /\ Run(extraction.page, fn, Roots[k]).t = "throw"

C14_ExtractionFailsWhole ==
    (extraction.pc = "done" /\ \E k \in DOMAIN Roots : ThrowsOn(k)) =>
        /\ ~extraction.outcome.ok
        /\ extraction.outcome.errorName = "ExtractionError"
        /\ extraction.outcome.url = extraction.url
        /\ extraction.outcome.selector = extraction.selector
        /\ extraction.outcome.records = JsNull

\* the callback of a mixed schema throws on the second root and not on the
\* first
C14_Witness ==
    /\ extraction.pc = "done"
    /\ extraction.outcome.errorName = "ExtractionError"
    /\ MixesFields(extraction.extractor)
    /\ Len(Roots) = 2 /\ ~ThrowsOn(1) /\ ThrowsOn(2)

(***************************************************************************)
(* C15: harvestBatch with concurrency c starts its jobs in consecutive     *)
(* chunks of c jobs; no job of a later chunk is started before every job   *)
(* of the chunks before it has settled, so that at no time more than c     *)
(* jobs are in flight, a job sleeping in a backoff counted as in flight.   *)
(***************************************************************************)
\* the jobs of the batch that have been started
StartedJobs == {j \in Jobs : batch.jobs[j].state # "none"}

\* the jobs whose harvest has not come to its end, or whose wrapper has not
InFlight ==
    {j \in StartedJobs : \/ batch.jobs[j].state = "pending"
                         \/ calls[j].pc \notin {"resolved", "rejected"}}

\* the chunk the j-th config falls in, counted from 0
ChunkOf(j) == (j - 1) \div batch.concurrency

C15_ChunkBarrier ==
    batch.pc # "idle" =>
        /\ Cardinality(InFlight) <= batch.concurrency
        /\ \E n \in 0..Len(batch.configs) : StartedJobs = 1..n
        /\ StartedJobs # {} =>
              StartedJobs = {j \in 1..Len(batch.configs) :
                                j <= batch.i + batch.concurrency}
        /\ \A j, k \in StartedJobs :
              ChunkOf(j) < ChunkOf(k) => j \notin InFlight

\* 3 jobs at concurrency 2: both jobs of the first chunk were in flight and
\* have settled, the second before the first; the job of the second chunk is
\* in flight, asleep in a backoff
C15_Witness ==
    /\ batch.pc = "running"
    /\ Len(batch.configs) = 3 /\ batch.concurrency = 2
    /\ batch.settled = <<2, 1>>
    /\ InFlight = {3} /\ calls[3].pc = "backoff"

(***************************************************************************)
(* C16: in harvestBatch, onProgress(completed, total) is invoked exactly   *)
(* once per job, when the job settles, whether it succeeded or failed;     *)
(* total is configs.length in every invocation, and completed takes the    *)
(* values 1, 2, ..., total in this order; there is no invocation for an    *)
(* empty list of jobs.                                                     *)
(***************************************************************************)
\* the invocations so far are one per settled job, the k-th with (k, total)
OncePerSettledJob ==
    /\ Len(batch.progress) = Len(batch.settled)
    /\ \A k \in DOMAIN batch.progress :
          /\ k <= Len(batch.configs)
          /\ batch.progress[k] = <<k, Len(batch.configs)>>

C16_ProgressOncePerJob ==
    batch.onProgress # "none" =>
        /\ OncePerSettledJob
        /\ batch.pc = "resolved" => Len(batch.progress) = Len(batch.configs)

(***************************************************************************)
(* C17: calculateBackoff(i, strategy, cap) is min(1000 * 2^i, cap) for the *)
(* exponential strategy and min(1000 * (i + 1), cap) for the linear one,   *)
(* for every attempt index i and every cap; the strategy defaults to       *)
(* exponential and the cap to 10000, which gives 1000, 2000, 4000, 8000,   *)
(* 10000 for i = 0..4.                                                     *)
(***************************************************************************)
\* the delays of the default strategy and cap for i = 0..4
DefaultSchedule == <<1000, 2000, 4000, 8000, 10000>>

\* 2^i by repeated doubling
RECURSIVE Doubled(_, _)
Doubled(x, i) == IF i = 0 THEN x ELSE Doubled(x + x, i - 1)

C17_BackoffFormula ==
    backoffCall.pc = "returned" =>
        LET i == backoffCall.attempt
            r == backoffCall.result
            exponential == backoffCall.argc = 1 \/ backoffCall.strategy = "exponential"
            cap == IF backoffCall.argc = 3 THEN backoffCall.maxBackoff ELSE 10000
            raw == IF exponential THEN Doubled(1000, i) ELSE 1000 * (i + 1)
        IN /\ r <= cap /\ r <= raw /\ r \in {cap, raw}
           /\ (exponential /\ cap = 10000 /\ i <= 4) => r = DefaultSchedule[i + 1]
           /\ (~exponential /\ cap = 10000 /\ i \in {0, 9}) =>
                  r = IF i = 0 THEN 1000 ELSE 10000

\* called with the attempt index alone, the fifth delay is the default cap
C17_Witness ==
    /\ backoffCall.pc = "returned"
    /\ backoffCall.argc = 1 /\ backoffCall.attempt = 4
    /\ backoffCall.result = 10000

(***************************************************************************)
(* C18: across the attempts of one retry sequence of harvest or of         *)
(* harvestCustom, the backoff delay slept does not decrease from one retry *)
(* to the next and never exceeds maxBackoff, for both strategies and for   *)
(* every maxBackoff >= 0.                                                  *)
(***************************************************************************)
\* the delays of the call: those slept, then the one being slept
DelaysOf(call) ==
    IF call.pc = "backoff" THEN Append(call.slept, call.delay) ELSE call.slept

C18_DelaysMonotoneCapped ==
    \A c \in CallIds :
        LET d == DelaysOf(calls[c]) IN
        /\ \A j \in DOMAIN d : d[j] <= calls[c].options.maxBackoff
        /\ \A j, k \in DOMAIN d : j < k => d[j] <= d[k]

\* a harvestCustom call slept 1000 and then the cap 1500 before its third
\* attempt
C18_Witness ==
    \E c \in CallIds :
        /\ calls[c].kind = "harvestCustom" /\ calls[c].pc = "running"
        /\ calls[c].options.maxBackoff = 1500
        /\ calls[c].slept = <<1000, 1500>>

(***************************************************************************)
(* C19: on a fresh limiter with quota Q per window W, when Q + 1           *)
(* acquisitions are requested, one after the other or concurrently, the    *)
(* last of them is not granted earlier than W after the first was granted: *)
(* the Q + 1 acquisitions take at least W.                                 *)
(***************************************************************************)
\* the callers that have called waitIfNeeded
Requested == {c \in Callers : waiter[c].pc # "idle"}

\* the callers the global scope has granted, each at waiter[c].gts
GloballyGranted == {c \in Callers : waiter[c].gts # NoTs}

C19_QuotaPlusOneTakesWindow ==
    (/\ globalLimit.defined
     /\ Cardinality(Requested) = globalLimit.requests + 1
     /\ GloballyGranted = Requested) =>
        \E first, last \in GloballyGranted :
            /\ \A c \in GloballyGranted :
                  waiter[first].gts <= waiter[c].gts /\ waiter[c].gts <= waiter[last].gts
            /\ waiter[last].gts >= waiter[first].gts + globalLimit.per

\* quota 2 per 3: three acquisitions requested at once on the fresh limiter;
\* two are granted at once and the third when the window of the first is over
C19_Witness ==
    /\ globalLimit = Limit(2, 3)
    /\ Requested = {1, 2, 3} /\ GloballyGranted = Requested
    /\ \A c \in Callers : waiter[c].now = 0 /\ waiter[c].pc = "done"
    /\ {waiter[c].gts : c \in Callers} = {0, 3}

(***************************************************************************)
(* C20: for a target whose URL does not parse into a hostname,             *)
(* waitIfNeeded checks and records in the global scope as for any other    *)
(* target, and neither checks nor records in a per-domain list: the        *)
(* per-domain lists are left as they are.                                  *)
(***************************************************************************)
\* the caller c takes a step of its waitIfNeeded call for the URL
StepsFor(c, url) ==
    /\ waiter'[c] # waiter[c]
    /\ waiter'[c].url = url

\* the step of c is its entry into waitIfNeeded: the global scope is checked
\* against the quota, and the call sleeps or records the time
GlobalChecked(c) ==
    LET live == {i \in DOMAIN globalTimestamps :
                    globalLimit.defined /\ globalTimestamps[i] > clock - globalLimit.per}
        full == /\ globalLimit.defined /\ Cardinality(live) >= globalLimit.requests
                /\ \E i \in live : /\ \A k \in live : i <= k
                                   /\ globalTimestamps[i] + globalLimit.per > clock
    IN IF full
       THEN /\ waiter'[c].pc = "gsleep" /\ waiter'[c].gts = NoTs
            /\ Len(globalTimestamps') = Cardinality(live)
       ELSE /\ waiter'[c].pc = "done" /\ waiter'[c].gts = clock
            /\ Len(globalTimestamps') = Cardinality(live) + 1
            /\ globalTimestamps'[Len(globalTimestamps')] = clock

\* the step of c is its wake from the sleep of the global scope
GlobalRecorded(c) ==
    /\ waiter'[c].pc = "done" /\ waiter'[c].gts = clock
    /\ globalTimestamps' = Append(globalTimestamps, clock)

C20_UnparseableSkipsDomain ==
    [][\A c \in Callers :
          StepsFor(c, "not a url") =>
              /\ domainTimestamps' = domainTimestamps
              /\ waiter'[c].pc # "dsleep"
              /\ IF waiter[c].pc = "idle" THEN GlobalChecked(c) ELSE GlobalRecorded(c)
              /\ waiter'[c].pc = "done" =>
                    /\ Len(granted') = Len(granted) + 1
                    /\ granted'[Len(granted')].dts = NoTs]_vars

\* with a per-domain limit set and a list kept for a.test, a call for the
\* unparseable URL slept in the global scope and returned, recorded there only
C20_Witness ==
    /\ perDomainLimit.defined /\ domainTimestamps["a.test"].has
    /\ \E i \in DOMAIN granted :
          /\ granted[i].url = "not a url" /\ granted[i].domain = Null
          /\ granted[i].dts = NoTs
          /\ granted[i].gts > waiter[granted[i].caller].now
          /\ \E k \in DOMAIN globalTimestamps : globalTimestamps[k] = granted[i].gts

(***************************************************************************)
(* C21: a schema without callbacks, compiled twice and run on the same     *)
(* page content, yields the same records both times: the result depends on *)
(* the schema and on the content only, not on an earlier call.             *)
(***************************************************************************)
\* the harvest and the one before it had the same schema and page content
SameAsPrevious ==
    /\ extraction.previous.set
    /\ extraction.previous.extractor = extraction.extractor
    /\ extraction.previous.page = extraction.page

C23_ListIsRecords ==
    lastCall.op = "list" =>
        /\ lastCall.ids = {id \in SessionIds : RecordExists(id)}
        /\ ~dirExists => lastCall.ids = {}

(***************************************************************************)
(* C24: for every schema, nested to any depth and the item schema of an    *)
(* array descriptor included, each record produced through harvest has the *)
(* schema's keys at every level, no more and no fewer, in the schema's     *)
(* order.                                                                  *)
(***************************************************************************)
RECURSIVE KeysMatch(_, _)
\* the record has the keys of the schema, in its order, at every level
KeysMatch(schema, record) ==
    /\ record.t = "object"
    /\ Len(record.l) = Len(schema.l)
    /\ \A i \in DOMAIN schema.l :
          /\ record.l[i].s = schema.l[i].s
          /\ LET v == schema.l[i].l[1]
                 r == record.l[i].l[1]
                 item == Get(v, "extractor")
             IN IF isDSL(v)
                THEN (Get(v, "__dsl") = Str("array") /\ item.t = "object" /\ ~isDSL(item))
                        => /\ r.t = "array"
                           /\ \A k \in DOMAIN r.l : KeysMatch(item, r.l[k])
                ELSE v.t = "object" => KeysMatch(v, r)

C24_RecordHasSchemaKeys ==
    (extraction.pc = "done" /\ extraction.outcome.ok
        /\ extraction.extractor.t = "object") =>
    \A k \in DOMAIN extraction.outcome.records.l :
        KeysMatch(extraction.extractor, extraction.outcome.records.l[k])

(***************************************************************************)
(* C25: the error harvest or harvestCustom rejects with because an engine  *)
(* step failed is a NavigationError when navigation failed, a TimeoutError *)
(* when the wait for the selector failed, an ExtractionError when the      *)
(* schema, callback or page function failed inside the page, and it        *)
(* carries the url, an operation name and the error of the engine as its   *)
(* cause.                                                                  *)
(***************************************************************************)
\* the name of the error each failed engine step is to surface as
TaxonomyOf(step) ==
    CASE step = "goto" -> "NavigationError"
      [] step = "waitForSelector" -> "TimeoutError"
      [] step = "evaluate" -> "ExtractionError"

C25_ErrorTaxonomy ==
    (/\ attemptRun.pc = "thrown"
     /\ attemptRun.kind \in {"harvest", "harvestCustom"}
     /\ attemptRun.failed \in {"goto", "waitForSelector", "evaluate"}) =>
        /\ attemptRun.thrown.name = TaxonomyOf(attemptRun.failed)
        /\ attemptRun.thrown.url = attemptRun.url
        /\ attemptRun.thrown.operation # Null
        /\ attemptRun.thrown.cause = "Error"

(***************************************************************************)
(* C26: within one harvest or harvestCustom call nothing of attempt i+1,   *)
(* page creation included, starts before attempt i has failed and          *)
(* backoff(i) has fully elapsed: whenever a call is creating the page of   *)
(* attempt n or running attempt n, it has slept the n backoffs             *)
(* backoff(0) .. backoff(n-1).                                             *)
(***************************************************************************)
\* the call has slept every backoff that precedes its current attempt
BackoffsElapsed(call) ==
    /\ Len(call.slept) = call.attempt
    /\ \A i \in 1..Len(call.slept) :
           call.slept[i] = calculateBackoff(i - 1, call.options.backoff,
                                            call.options.maxBackoff)

C26_AttemptsSequential ==
    \A c \in CallIds :
        calls[c].pc \in {"newpage", "running"} => BackoffsElapsed(calls[c])

(***************************************************************************)
(* C27: in each rate-limit scope a caller that finds the purged count at   *)
(* the quota is suspended for oldestRemaining + windowMs - now, with now   *)
(* the time at which that scope's check is made: a caller that goes to     *)
(* sleep in a scope is released when the oldest remaining timestamp of     *)
(* that scope leaves the window, also when the per-domain wait follows a   *)
(* global wait of the same call.                                           *)
(***************************************************************************)
\* caller c goes to sleep in the scope whose sleep is pc
Suspends(c, pc) == waiter[c].pc # pc /\ waiter'[c].pc = pc

C27_WaitMeasuredAtCheck ==
    [][\A c \in Callers :
          /\ Suspends(c, "gsleep") =>
                 waiter'[c].wake = globalTimestamps'[1] + globalLimit.per
          /\ Suspends(c, "dsleep") =>
                 waiter'[c].wake = waiter'[c].domainTs[1] + perDomainLimit.per]_vars

(***************************************************************************)
(* C28: with a global and a per-domain limit configured, a waitIfNeeded    *)
(* call for a parseable target passes the global scope first and the       *)
(* per-domain scope second, goes through unsuspended only below both       *)
(* quotas, pushes one timestamp on the global list and one on the list of  *)
(* its own domain before it returns, and changes the list of no other      *)
(* domain.                                                                 *)
(***************************************************************************)
BothConfigured == rlConfig.global.defined /\ rlConfig.perDomain.defined

Last(s) == s[Len(s)]

\* the step is one of the call of caller c, for a target that parses
StepOf(c) == waiter'[c] # waiter[c] /\ extractDomain(waiter'[c].url) # Null

\* caller c pushes its global timestamp in this step
PushesGlobal(c) == waiter[c].gts = NoTs /\ waiter'[c].gts # NoTs

\* caller c returns in this step
Returns(c) == waiter[c].pc # "done" /\ waiter'[c].pc = "done"

C28_BothScopesOneRecordEach ==
    [][BothConfigured =>
       \A c \in Callers : StepOf(c) =>
          LET d == extractDomain(waiter'[c].url)
              before == domainTimestamps[d].ts
              after == domainTimestamps'[d].ts
          IN \* the global scope first: one push, made before the domain scope
             /\ waiter'[c].pc \in {"dsleep", "done"} => waiter'[c].gts # NoTs
             /\ IF PushesGlobal(c)
                THEN /\ waiter'[c].gts = clock
                     /\ Len(globalTimestamps') \in 1..(Len(globalTimestamps) + 1)
                     /\ Last(globalTimestamps') = clock
                ELSE Len(globalTimestamps') <= Len(globalTimestamps)
             \* the domain scope second: one push, made on return
             /\ IF Returns(c)
                THEN /\ Len(after) \in 1..(Len(before) + 1)
                     /\ Last(after) = clock
                     /\ Last(granted').dts = clock
                     /\ Last(granted').gts = waiter'[c].gts
                ELSE after = before
             /\ \A other \in Domains \ {d} :
                    domainTimestamps'[other] = domainTimestamps[other]
             \* both quotas: unsuspended only below quota
             /\ (waiter[c].pc = "idle" /\ waiter'[c].pc # "gsleep") =>
                    ~AtQuota(cleanOldTimestamps(globalTimestamps, globalLimit),
                             globalLimit)
             /\ (Returns(c) /\ waiter[c].pc # "dsleep") =>
                    ~AtQuota(cleanOldTimestamps(before, perDomainLimit),
                             perDomainLimit)]_vars

\* a call for a.test has returned after a wait in the domain scope that
\* followed its global push, while b.test has a list of its own
C28_Witness ==
    /\ BothConfigured
    /\ \E i \in 1..Len(granted) :
           /\ granted[i].domain = "a.test"
           /\ granted[i].gts > 0 /\ granted[i].dts > granted[i].gts
    /\ domainTimestamps["b.test"].ts # <<>>

(***************************************************************************)
(* C29: for an object schema that holds descriptors, createExtractor       *)
(* selects mixed-mode transport iff the schema holds a callback at any     *)
(* depth (a top-level field, a field of a nested schema, the item          *)
(* extractor of an array descriptor) and pure-mode transport iff it holds  *)
(* none; in mixed mode every callback of the schema gets a placeholder of  *)
(* its own.                                                                *)
(***************************************************************************)
RECURSIVE NumCallbacks(_)
\* the number of functions a value holds, at any depth
NumCallbacks(value) ==
    IF value.t = "function" THEN 1
    ELSE IF value.l = <<>> THEN 0
    ELSE NumCallbacks(value.l[1])
         + NumCallbacks([value EXCEPT !.t = "rest", !.l = Tail(value.l)])

C29_MixedIffCallback ==
    (/\ extraction.pc # "idle"
     /\ extraction.extractor.t = "object"
     /\ isUsingDSL(extraction.extractor)) =>
        LET made == createExtractor(extraction.extractor) IN
        /\ Has(made, "__isDSLSchema")
        /\ Has(made, "__isMixedMode") <=> HasCallback(extraction.extractor)
        /\ Has(made, "__isMixedMode") =>
               Len(replaceFunctions(extraction.extractor, <<>>).functions)
                   = NumCallbacks(extraction.extractor)

(***************************************************************************)
(* C30: every element a field descriptor resolves to is its current root   *)
(* (selector absent) or a descendant of it; the current root of the item   *)
(* extractor of array(selector, item) is the matched element, that of a    *)
(* nested schema is the enclosing root: no descriptor reads an element     *)
(* outside the subtree of its root, nor outside that of the element the    *)
(* record is made for.                                                     *)
(***************************************************************************)
\* n is root or lies below it
InSubtree(n, root) == n = root \/ IsDescendant(n, root)

RECURSIVE Resolved(_, _, _, _)
RECURSIVE ResolvedIn(_, _, _, _)

\* the elements executeDSLExtraction resolves for the descriptor dslDef on
\* the root element, each with its root and the element of the record
Resolved(page, top, element, dslDef) ==
    LET selector == Get(dslDef, "selector")
        kind == Get(dslDef, "__dsl")
        read(n) == [top |-> top, root |-> element, target |-> n]
        targetElement == IF Truthy(selector)
                         THEN querySelector(page, element, selector)
                         ELSE element
        elements == querySelectorAll(page, element, selector)
        extractor == Get(dslDef, "extractor")
    IN (IF targetElement = NoElement THEN {} ELSE {read(targetElement)})
       \cup (IF kind \in {Str("count"), Str("array")}
             THEN {read(elements[i]) : i \in DOMAIN elements} ELSE {})
       \cup (IF kind = Str("array")
             THEN UNION {IF isDSL(extractor)
                         THEN Resolved(page, top, elements[i], extractor)
                         ELSE IF extractor.t = "object"
                         THEN ResolvedIn(page, top, elements[i], extractor)
                         ELSE {} : i \in DOMAIN elements}
             ELSE {})

\* the elements executeDSLObject resolves for the schema on the root element
ResolvedIn(page, top, element, schema) ==
    UNION {LET value == schema.l[i].l[1] IN
           IF isDSL(value) THEN Resolved(page, top, element, value)
           ELSE IF value.t = "object" THEN ResolvedIn(page, top, element, value)
           ELSE {} : i \in DOMAIN schema.l}

\* the elements the descriptors of the harvest resolve in the page, for the
\* schema the page was sent
ResolvedByHarvest ==
    LET fn == NewFunction(extraction.code)
        elements == querySelectorAll(extraction.page, 0, extraction.selector)
    IN IF fn.t = "procedure" /\ fn.l[1].t = "object"
       THEN UNION {ResolvedIn(extraction.page, elements[i], elements[i], fn.l[1]) :
                       i \in DOMAIN elements}
       ELSE {}

C30_ReadsWithinRoot ==
    extraction.pc = "done" =>
        \A r \in ResolvedByHarvest :
            InSubtree(r.target, r.root) /\ InSubtree(r.root, r.top)

\* a harvest has resolved a descendant of a root through a selector, and an
\* element inside an item of an array descriptor
C30_Witness ==
    /\ extraction.pc = "done" /\ extraction.outcome.ok
    /\ \E r \in ResolvedByHarvest : r.target # r.root /\ r.root = r.top
    /\ \E r \in ResolvedByHarvest : r.root # r.top

(***************************************************************************)
(* C31: within one attempt of harvest the phases run in the order          *)
(* navigate, wait for the root selector, optional screenshot, extract; a   *)
(* failed navigation yields NavigationError and no later phase runs, a     *)
(* failed wait yields TimeoutError and neither screenshot nor extraction   *)
(* runs, a failed extraction yields ExtractionError, and a failed          *)
(* screenshot does not fail the attempt: extraction runs after it and the  *)
(* attempt throws only what a later step fails with.                       *)
(***************************************************************************)
\* the rank of each phase in the order of _performHarvest
PhaseOrder == <<"newPage", "goto", "waitForSelector", "screenshot", "evaluate">>
RankOf(phase) == CHOOSE i \in DOMAIN PhaseOrder : PhaseOrder[i] = phase

\* the phases that have run
Ran(f) == {f.phases[i] : i \in DOMAIN f.phases}

C31_PhaseOrder ==
    attemptRun.kind = "harvest" =>
        LET f == attemptRun IN
        \* in order, none skipped but the optional screenshot
        /\ \A i, j \in DOMAIN f.phases :
               i < j => RankOf(f.phases[i]) < RankOf(f.phases[j])
        /\ "evaluate" \in Ran(f) => {"goto", "waitForSelector"} \subseteq Ran(f)
        /\ "waitForSelector" \in Ran(f) => "goto" \in Ran(f)
        /\ "screenshot" \in Ran(f) => f.screenshot /\ "waitForSelector" \in Ran(f)
        /\ ("evaluate" \in Ran(f) /\ f.screenshot) => "screenshot" \in Ran(f)
        \* the failure of each phase
        /\ f.failed = "goto" =>
               /\ Ran(f) \cap {"waitForSelector", "screenshot", "evaluate"} = {}
               /\ f.pending.name = "NavigationError"
        /\ f.failed = "waitForSelector" =>
               /\ Ran(f) \cap {"screenshot", "evaluate"} = {}
               /\ f.pending.name = "TimeoutError"
        /\ f.failed = "evaluate" => f.pending.name = "ExtractionError"
        /\ (f.pc = "thrown" /\ f.failed \in {"goto", "waitForSelector", "evaluate"}) =>
               f.thrown = f.pending
        \* the screenshot
        /\ f.failed # "screenshot"
        /\ (f.warned /\ f.pc \in {"close", "returned", "thrown"}) =>
               "evaluate" \in Ran(f)

\* an attempt of harvest has returned its records after its screenshot failed
C31_Witness ==
    /\ attemptRun.kind = "harvest" /\ attemptRun.pc = "returned"
    /\ attemptRun.warned
    /\ attemptRun.phases = PhaseOrder

(***************************************************************************)
(* C32: loadSession, hasSession and listSessions never create, modify or   *)
(* remove a durable session record; saveSession(id) and deleteSession(id)  *)
(* change only the record of id and leave that of every other id as it     *)
(* was.                                                                    *)
(***************************************************************************)
\* the durable record of id, or none
RecordOf(id) == IF RecordExists(id) THEN files[SessionFile(id)] ELSE NoFile

\* the step leaves the records of all ids but those of keep as they were
RecordsKept(keep) ==
    \A id \in SessionIds \ keep :
        (IF dirExists' /\ files'[SessionFile(id)].exists
         THEN files'[SessionFile(id)] ELSE NoFile) = RecordOf(id)

\* the step is one of a loadSession of some manager: its lookup, or the end
\* of its newContext
LoadStep ==
    \/ lastCall'.op = "load"
    \/ \E m \in Managers : pending[m].op = "none" /\ pending'[m].op = "load"

\* the step is the first part of a saveSession(id), up to its await
SaveBegins(id) ==
    \E m \in Managers :
        pending[m].op = "none" /\ pending'[m].op = "save" /\ pending'[m].id = id

C32_OnlyOwnRecord ==
    [][/\ (LoadStep \/ lastCall'.op \in {"has", "list"}) => RecordsKept({})
       /\ \A id \in SessionIds :
              (\/ SaveBegins(id)
               \/ lastCall'.op \in {"save", "delete"} /\ lastCall'.id = id) =>
                  RecordsKept({id})]_vars

\* a deleteSession has removed the record of its id while the other id has
\* a record
C32_Witness ==
    /\ lastCall.op = "delete" /\ lastCall.value /\ lastCall.existed
    /\ ~RecordExists(lastCall.id)
    /\ \E id \in SessionIds \ {lastCall.id} : RecordExists(id)

(***************************************************************************)
(* C33: every waitIfNeeded call eventually returns, for every target       *)
(* string, every configuration and every interleaving of suspended         *)
(* callers: a caller suspended in a scope until a time the clock of the    *)
(* model reaches leaves that scope, and no caller is held back by another. *)
(***************************************************************************)
\* caller c sleeps in the scope whose sleep is pc, until a time within MaxTime
Sleeping(c, pc) == waiter[c].pc = pc /\ waiter[c].wake <= MaxTime

GrantsTo(c) == {i \in 1..Len(granted) : granted[i].caller = c}

C34_AcquiresOnce ==
    \A c \in LimitedCallers :
        /\ Cardinality(GrantsTo(c)) <= 1
        /\ calls[c].pc = "limiter" => calls[c].attempts = 0
        /\ calls[c].attempts >= 1 =>
               /\ waiter[c].pc = "done"
               /\ \E i \in GrantsTo(c) :
                      /\ granted[i].url = calls[c].url
                      /\ granted[i].gts # NoTs
                      /\ granted[i].dts # NoTs <=>
                             (perDomainLimit.defined /\ extractDomain(calls[c].url) # Null)

\* a harvest has made three attempts, and a screenshot call has been made,
\* each after one return of the limiter
C34_Witness ==
    /\ \E c \in LimitedCallers : /\ calls[c].kind = "harvest" /\ calls[c].attempts = 3
                          /\ Cardinality(GrantsTo(c)) = 1
    /\ \E c \in LimitedCallers : /\ calls[c].kind = "screenshot" /\ calls[c].pc = "resolved"
                          /\ Cardinality(GrantsTo(c)) = 1

(***************************************************************************)
(* C35: with a per-domain limit, the timestamp of every waitIfNeeded call  *)
(* that has returned for a target that parses stays in the stored list of  *)
(* its domain until it ages out of the window, also when several callers   *)
(* for the domain are suspended at once: the list holds each timestamp     *)
(* that is still in the window as many times as calls recorded it.         *)
(***************************************************************************)
\* how many calls for domain d have recorded the timestamp t
RecordedAt(d, t) ==
    Cardinality({i \in 1..Len(granted) :
                    granted[i].domain = d /\ granted[i].dts = t})

\* how many times the stored list of d holds t
StoredAt(d, t) ==
    Cardinality({k \in DOMAIN domainTimestamps[d].ts : domainTimestamps[d].ts[k] = t})

C35_NoTimestampLost ==
    perDomainLimit.defined =>
        \A d \in Domains, t \in 0..MaxTime :
            t > clock - perDomainLimit.per => StoredAt(d, t) >= RecordedAt(d, t)

C37_BatchResolves ==
    (batch.pc = "running" /\ batch.onProgress # "throws") ~> (batch.pc = "resolved")

(***************************************************************************)
(* C38: every harvest and harvestCustom call makes at least one attempt,   *)
(* for every value of options.retries, and a call that rejects rejects     *)
(* with the error raised by its last attempt, never with null: a call is   *)
(* settled after one attempt or more, the value it rejects with is an      *)
(* error, and when the call rejects out of a failed attempt that value is  *)
(* the error the attempt threw.                                            *)
(***************************************************************************)
C38_AttemptsBeforeSettling ==
    [][\A c \in CallIds :
          (calls[c].pc # calls'[c].pc /\ calls'[c].pc \in {"resolved", "rejected"}) =>
              /\ calls'[c].attempts >= 1
              /\ calls'[c].pc = "rejected" =>
                     /\ calls'[c].thrown \in ErrorNames
                     /\ calls[c].pc = "running" =>
                            calls'[c].thrown = calls'[c].lastError]_vars

(***************************************************************************)
(* C39: in harvestBatch the outcome of job i has success = TRUE exactly    *)
(* when the harvest of configs[i] resolved, whatever onProgress does, a    *)
(* callback that throws included: every job whose harvest has settled and  *)
(* whose wrapper went on has an outcome that tells how the harvest         *)
(* settled, the completed counter never exceeds total, and harvestBatch    *)
(* does not reject.                                                        *)
(***************************************************************************)
\* the wrapper of job j has run past its await of this.harvest
WrapperDone(j) == batch.jobs[j].state \notin {"none", "pending"}

C39_ProgressCannotInterfere ==
    /\ \A j \in Jobs :
          WrapperDone(j) =>
              /\ batch.jobs[j].state = "fulfilled"
              /\ batch.jobs[j].outcome.success <=> (calls[j].pc = "resolved")
    /\ batch.completed <= batch.total
    /\ batch.pc # "rejected"

(***************************************************************************)
(* C40: login makes its steps in the order: navigate to the login page,    *)
(* fill and submit the form, wait for successSelector if one is given,     *)
(* save the session, save the cookie file. When a step fails, nothing      *)
(* after it is done: with a failure of the navigation, of the form or of   *)
(* the wait no session record and no cookie file is written. The session   *)
(* is saved only when both sessionManager and sessionId are given.         *)
(***************************************************************************)
\* the steps of the statement, in its order
ClaimedOrder ==
    <<"goto", "usernameField", "usernameFill", "passwordField", "passwordFill",
      "submitField", "submit", "successSelector", "saveSession", "saveCookies">>

RankIn(order, step) == CHOOSE k \in DOMAIN order : order[k] = step

\* the steps login has completed
Completed == {loginRun.done[k] : k \in DOMAIN loginRun.done}

\* the steps that come before the two saves
BeforeSaving == {ClaimedOrder[k] : k \in 1..8}

\* a session record is there, on disk or in a manager's index
SomeRecord ==
    \/ \E id \in SessionIds : RecordExists(id)
    \/ \E m \in Managers, id \in SessionIds : sessions[m][id] # NoPath

C40_LoginOrder ==
    LET f == loginRun
        o == loginRun.options
    IN /\ \A i, j \in DOMAIN f.done :
              i < j => RankIn(ClaimedOrder, f.done[i]) < RankIn(ClaimedOrder, f.done[j])
       \* a step is made after the navigation and the whole form
       /\ \A k \in DOMAIN f.done : k <= 7 => f.done[k] = ClaimedOrder[k]
       /\ "successSelector" \in Completed => o.successSelector
       /\ (o.successSelector /\ Completed \cap {"saveSession", "saveCookies"} # {})
              => "successSelector" \in Completed
       /\ f.pc = "resolved" =>
              /\ Len(f.done) >= 7
              /\ o.successSelector => "successSelector" \in Completed
              /\ o.cookiesPath => f.cookieFile
       \* the session is saved only with a manager and an id
       /\ (SomeRecord \/ "saveSession" \in Completed) =>
              /\ o.sessionManager # Null /\ o.sessionId.given
              /\ "saveSession" \in Completed
       /\ f.cookieFile => "saveCookies" \in Completed /\ o.cookiesPath
       \* nothing is written after a failure
       /\ f.failed \in BeforeSaving => ~SomeRecord /\ ~f.cookieFile
       /\ f.failed = "saveSession" => ~SomeRecord /\ ~f.cookieFile
       /\ f.failed # Null =>
              \A k \in DOMAIN f.done :
                  RankIn(ClaimedOrder, f.done[k]) < RankIn(ClaimedOrder, f.failed)

\* a login asked to save a session and a cookie file, whose wait for the
\* success selector failed
C40_Witness ==
    /\ loginRun.pc = "rejected" /\ loginRun.failed = "successSelector"
    /\ loginRun.options.sessionManager # Null
    /\ loginRun.options.sessionId = SessionId(<<"alice">>)
    /\ loginRun.options.cookiesPath
    /\ Len(loginRun.done) = 7

====
